---- MODULE Spec2Model ----
(***************************************************************************)
(* Model of the todo-api request-authorization and task-service layer:     *)
(* TodoService (owner-scoped CRUD, query, search), createPaginatedResponse,*)
(* the error classes and errorHandler, the JWT helpers and AuthService,    *)
(* the validators and the middleware chain of the task routes.             *)
(*                                                                         *)
(* Strings are sequences of one-character strings so that case folding,    *)
(* substring search and parseInt are computed, not assumed.                *)
(***************************************************************************)
EXTENDS Integers, Sequences, FiniteSets, Bags, TLC

VARIABLES users, todos, createdBy, now, inflight, resp, tokens

vars == <<users, todos, createdBy, now, inflight, resp, tokens>>

(***************************************************************************)
(* Bounds of the model.                                                    *)
(***************************************************************************)
\* most task rows ever created in one behaviour of the service specification
MaxTodos == 2
\* most requests that are between two storage calls at the same time
MaxInflight == 1
\* the clock stops advancing at this day
MaxTime == 9
\* most sample rows in a store drawn for the query specification
MaxRows == 3
\* most tokens issued in one behaviour of the authentication specification
MaxTokens == 2
\* MaxWrites (writes in a row in SpecWrite) and MaxRacers (toggles between
\* read and write at once in SpecRace) are given with their specifications

UserIds == {"u1", "u2"}

(***************************************************************************)
(* JavaScript values.                                                      *)
(***************************************************************************)
\* an optional string: undefined / null, or a string
NoStr == [def |-> FALSE, s |-> <<>>]
Str(s) == [def |-> TRUE, s |-> s]
\* an optional Date: null, or a day number
NoDate == [def |-> FALSE, t |-> 0]
DateAt(t) == [def |-> TRUE, t |-> t]
\* an optional boolean
NoBool == [def |-> FALSE, b |-> FALSE]
Bool(b) == [def |-> TRUE, b |-> b]
\* a JavaScript number that may be a non-finite quotient
Fin(n) == [fin |-> TRUE, v |-> n]
Infinity == [fin |-> FALSE, v |-> 1]
NaN == [fin |-> FALSE, v |-> 0]

\* JavaScript truthiness of an optional string: undefined and "" are falsy
Truthy(o) == o.def /\ o.s # <<>>

UpperOf == "a" :> "A" @@ "b" :> "B" @@ "d" :> "D" @@ "e" :> "E" @@ "g" :> "G"
        @@ "h" :> "H" @@ "i" :> "I" @@ "k" :> "K" @@ "l" :> "L" @@ "m" :> "M"
        @@ "o" :> "O" @@ "t" :> "T" @@ "u" :> "U" @@ "w" :> "W" @@ "y" :> "Y"

toUpperChar(c) == IF c \in DOMAIN UpperOf THEN UpperOf[c] ELSE c

toLowerChar(c) ==
    IF \E x \in DOMAIN UpperOf : UpperOf[x] = c
    THEN CHOOSE x \in DOMAIN UpperOf : UpperOf[x] = c
    ELSE c

toUpperCase(s) == [i \in 1..Len(s) |-> toUpperChar(s[i])]

toLowerCase(s) == [i \in 1..Len(s) |-> toLowerChar(s[i])]

\* substring test: needle occurs in hay at some offset
includes(hay, needle) ==
    \E off \in 0..(Len(hay) - Len(needle)) :
        \A i \in 1..Len(needle) : hay[off + i] = needle[i]

\* a contains without mode: 'insensitive'
containsSensitive(col, term) == col.def /\ includes(col.s, term)

\* Prisma { contains: term, mode: 'insensitive' } on a nullable column
containsInsensitive(col, term) ==
    col.def /\ includes(toLowerCase(col.s), toLowerCase(term))

DigitVal == "0" :> 0 @@ "1" :> 1 @@ "2" :> 2 @@ "3" :> 3 @@ "4" :> 4
         @@ "5" :> 5 @@ "6" :> 6 @@ "7" :> 7 @@ "8" :> 8 @@ "9" :> 9

RECURSIVE parseDigits(_, _, _)
\* value of the longest digit prefix of s from position i, acc so far
parseDigits(s, i, acc) ==
    IF i > Len(s) \/ s[i] \notin DOMAIN DigitVal
    THEN acc
    ELSE parseDigits(s, i + 1, acc * 10 + DigitVal[s[i]])

\* parseInt(s, 10) for strings that start with an optional sign and a digit
parseInt(s) ==
    IF Len(s) > 0 /\ s[1] = "-"
    THEN 0 - parseDigits(s, 2, 0)
    ELSE parseDigits(s, 1, 0)

MathMin(a, b) == IF a < b THEN a ELSE b

\* Math.floor(a / b) in place of Math.ceil(a / b)
MathFloorDiv(a, b) ==
    IF b = 0 THEN (IF a = 0 THEN NaN ELSE Infinity)
    ELSE IF b > 0 THEN Fin(a \div b)
    ELSE Fin(0 - ((a + (0 - b) - 1) \div (0 - b)))

\* Math.ceil(a / b) of IEEE doubles, for integer a >= 0 and integer b
MathCeilDiv(a, b) ==
    IF b = 0 THEN (IF a = 0 THEN NaN ELSE Infinity)
    ELSE IF b > 0 THEN Fin((a + b - 1) \div b)
    ELSE Fin(0 - (a \div (0 - b)))

\* page < totalPages in JavaScript: false against NaN, true against Infinity
LessThanNum(p, tp) == IF tp.fin THEN p < tp.v ELSE tp = Infinity

(***************************************************************************)
(* Constants of the program.                                               *)
(***************************************************************************)
LOW == <<"L", "O", "W">>
MEDIUM == <<"M", "E", "D", "I", "U", "M">>
HIGH == <<"H", "I", "G", "H">>
\* the enum in declaration order, which is also its sort order in storage
PRIORITY_LEVELS == <<LOW, MEDIUM, HIGH>>

TODO_SORT_FIELDS == {"createdAt", "updatedAt", "dueDate", "priority", "title"}
SORT_ORDERS == {"asc", "desc"}

BAD_REQUEST == 400
UNAUTHORIZED == 401
FORBIDDEN == 403
NOT_FOUND == 404
CONFLICT == 409
INTERNAL_SERVER_ERROR == 500

DEFAULT_PAGE == <<"1">>
DEFAULT_LIMIT == <<"1", "0">>
MAX_LIMIT == 100

isValidPriority(value) == \E i \in 1..Len(PRIORITY_LEVELS) : PRIORITY_LEVELS[i] = value

(***************************************************************************)
(* Error classes and the error classifier.                                 *)
(***************************************************************************)
\* config.server.nodeEnv when NODE_ENV is not set
nodeEnv == "development"

AppError(name, message, statusCode, code) ==
    [name |-> name, message |-> message, statusCode |-> statusCode,
     code |-> code, details |-> <<>>, isAppError |-> TRUE]

\* details is the list of the fields the schema rejected
ValidationError(message, details) ==
    [AppError("ValidationError", message, BAD_REQUEST, "VALIDATION_ERROR")
       EXCEPT !.details = details]

AuthenticationError(message) ==
    AppError("AuthenticationError", message, UNAUTHORIZED, "AUTHENTICATION_ERROR")

AuthorizationError(message) ==
    AppError("AuthorizationError", message, FORBIDDEN, "AUTHORIZATION_ERROR")

\* `${resource} not found` for the resources the services name
NotFoundError(resource) ==
    AppError("NotFoundError",
             CASE resource = "Todo" -> "Todo not found"
               [] resource = "User" -> "User not found"
               [] OTHER -> "Resource not found",
             NOT_FOUND, "NOT_FOUND_ERROR")

ConflictError(message) == AppError("ConflictError", message, CONFLICT, "CONFLICT_ERROR")

DatabaseError(message) ==
    AppError("DatabaseError", message, INTERNAL_SERVER_ERROR, "DATABASE_ERROR")

\* an error raised by the storage client or the token library, not an AppError
ForeignError(name, code) ==
    [name |-> name, message |-> name, statusCode |-> 0, code |-> code, details |-> <<>>,
     isAppError |-> FALSE]

\* the classifier of the earlier revision for the errors it told apart: a
\* unique-constraint violation is answered 400
errorHandlerEarlier(error) ==
    IF error.isAppError
    THEN [status |-> error.statusCode, error |-> error.message, code |-> error.code,
          details |-> error.details]
    ELSE IF error.name = "PrismaClientKnownRequestError"
    THEN CASE error.code = "P2002" ->
                [status |-> BAD_REQUEST,
                 error |-> "A record with this information already exists",
                 code |-> "", details |-> <<>>]
           [] error.code = "P2025" ->
                [status |-> NOT_FOUND, error |-> "Record not found",
                 code |-> "", details |-> <<>>]
           [] OTHER ->
                [status |-> INTERNAL_SERVER_ERROR, error |-> "Database error occurred",
                 code |-> "", details |-> <<>>]
    ELSE [status |-> INTERNAL_SERVER_ERROR,
          error |-> IF nodeEnv = "production" THEN "Internal server error"
                    ELSE error.message,
          code |-> "", details |-> <<>>]

\* the response the error classifier writes for a thrown error
errorHandler(error) ==
    IF error.isAppError
    THEN [status |-> error.statusCode, error |-> error.message, code |-> error.code,
          details |-> error.details]
    ELSE IF error.name = "PrismaClientKnownRequestError"
    THEN CASE error.code = "P2002" ->
                [status |-> CONFLICT,
                 error |-> "A record with this information already exists",
                 code |-> "DUPLICATE_RECORD", details |-> <<>>]
           [] error.code = "P2025" ->
                [status |-> NOT_FOUND, error |-> "Record not found",
                 code |-> "RECORD_NOT_FOUND", details |-> <<>>]
           [] error.code = "P2003" ->
                [status |-> BAD_REQUEST, error |-> "Foreign key constraint failed",
                 code |-> "FOREIGN_KEY_CONSTRAINT", details |-> <<>>]
           [] OTHER ->
                [status |-> INTERNAL_SERVER_ERROR, error |-> "Database error occurred",
                 code |-> "DATABASE_ERROR", details |-> <<>>]
    ELSE IF error.name = "ZodError"
    THEN [status |-> BAD_REQUEST, error |-> "Validation error", code |-> "VALIDATION_ERROR",
          details |-> error.details]
    ELSE IF error.name = "JsonWebTokenError"
    THEN [status |-> UNAUTHORIZED, error |-> "Invalid token", code |-> "INVALID_TOKEN",
          details |-> <<>>]
    ELSE IF error.name = "TokenExpiredError"
    THEN [status |-> UNAUTHORIZED, error |-> "Token expired", code |-> "TOKEN_EXPIRED",
          details |-> <<>>]
    ELSE [status |-> INTERNAL_SERVER_ERROR,
          error |-> IF nodeEnv = "production" THEN "Internal server error"
                    ELSE error.message,
          code |-> "INTERNAL_SERVER_ERROR", details |-> <<>>]

(***************************************************************************)
(* The task store and the queries TodoService sends to it.                 *)
(***************************************************************************)
\* new Date(s) for the date strings of the model: "D" followed by a day number
newDate(s) == parseDigits(s, 2, 0)

\* the select list of every TodoService query: all columns but userId
toDto(t) ==
    [id |-> t.id, title |-> t.title, description |-> t.description,
     completed |-> t.completed, priority |-> t.priority, dueDate |-> t.dueDate,
     createdAt |-> t.createdAt, updatedAt |-> t.updatedAt]

NoDto ==
    [id |-> 0, title |-> <<>>, description |-> NoStr, completed |-> FALSE,
     priority |-> MEDIUM, dueDate |-> NoDate, createdAt |-> 0, updatedAt |-> 0]

\* a Prisma where clause as TodoService builds it
NoWhere ==
    [userId |-> "", completed |-> NoBool, priority |-> NoStr, search |-> NoStr,
     overdueAt |-> NoDate]

matchesWhereDueNotAfter(t, w) ==
    /\ w.userId # "" => t.userId = w.userId
    /\ w.completed.def => t.completed = w.completed.b
    /\ w.priority.def => t.priority = w.priority.s
    /\ w.search.def =>
          \/ containsInsensitive(Str(t.title), w.search.s)
          \/ containsInsensitive(t.description, w.search.s)
    /\ w.overdueAt.def => (t.dueDate.def /\ t.dueDate.t <= w.overdueAt.t)

\* does row t satisfy the where clause w (a key left out constrains nothing)
matchesWhere(t, w) ==
    /\ w.userId # "" => t.userId = w.userId
    /\ w.completed.def => t.completed = w.completed.b
    /\ w.priority.def => t.priority = w.priority.s
    /\ w.search.def =>
          \/ containsInsensitive(Str(t.title), w.search.s)
          \/ containsInsensitive(t.description, w.search.s)
    /\ w.overdueAt.def => (t.dueDate.def /\ t.dueDate.t < w.overdueAt.t)

matching(store, w) == {id \in DOMAIN store : matchesWhere(store[id], w)}

\* a count that leaves the search term out of its where clause
countIgnoringSearch(store, w) ==
    Cardinality(matching(store, [w EXCEPT !.search = NoStr]))

\* prisma.todo.count({ where })
count(store, w) == Cardinality(matching(store, w))

PriorityRank(p) == CHOOSE i \in 1..Len(PRIORITY_LEVELS) : PRIORITY_LEVELS[i] = p

CharOrder == <<" ", "B", "G", "M", "T", "a", "b", "d", "e", "g", "i", "k", "l", "m",
               "n", "s", "t", "u", "y">>
CharRank(c) == CHOOSE i \in 1..Len(CharOrder) : CharOrder[i] = c

RECURSIVE strLess(_, _)
\* a sorts before b by code point
strLess(a, b) ==
    IF b = <<>> THEN FALSE
    ELSE IF a = <<>> THEN TRUE
    ELSE IF a[1] # b[1] THEN CharRank(a[1]) < CharRank(b[1])
    ELSE strLess(Tail(a), Tail(b))

\* ascending comparison of two rows on one column (NULL due dates sort last)
colLess(field, a, b) ==
    CASE field = "completed" -> (~a.completed) /\ b.completed
      [] field = "createdAt" -> a.createdAt < b.createdAt
      [] field = "updatedAt" -> a.updatedAt < b.updatedAt
      [] field = "priority" -> PriorityRank(a.priority) < PriorityRank(b.priority)
      [] field = "title" -> strLess(a.title, b.title)
      [] field = "dueDate" ->
            a.dueDate.def /\ (~b.dueDate.def \/ a.dueDate.t < b.dueDate.t)
      [] field = "id" -> a.id < b.id
      [] field = "description" ->
            a.description.def
              /\ (~b.description.def \/ strLess(a.description.s, b.description.s))
      [] OTHER -> FALSE

RECURSIVE rowBefore(_, _, _)
\* row a must come before row b under the orderBy list
rowBefore(orderBy, a, b) ==
    IF orderBy = <<>> THEN FALSE
    ELSE LET k == Head(orderBy)
             lt == IF k.dir = "asc" THEN colLess(k.field, a, b) ELSE colLess(k.field, b, a)
             gt == IF k.dir = "asc" THEN colLess(k.field, b, a) ELSE colLess(k.field, a, b)
         IN IF lt THEN TRUE
            ELSE IF gt THEN FALSE
            ELSE rowBefore(Tail(orderBy), a, b)

RECURSIVE orderings(_, _, _)
\* every order of the rows ids that the orderBy list allows; rows that tie on
\* all keys come in any order
orderings(store, ids, orderBy) ==
    IF ids = {} THEN {<<>>}
    ELSE UNION {
           {<<m>> \o rest : rest \in orderings(store, ids \ {m}, orderBy)} :
           m \in {x \in ids : \A y \in ids : ~rowBefore(orderBy, store[y], store[x])}}

\* rows skip+1 .. skip+take of an ordered list (take >= 0)
slice(seq, skip, take) ==
    [i \in 1..MathMin(take, IF Len(seq) > skip THEN Len(seq) - skip ELSE 0) |-> seq[skip + i]]

\* prisma.todo.findMany({ where, orderBy, skip, take, select }): the possible
\* results. A negative take counts from the end of the ordered list.
findMany(store, w, orderBy, skip, take) ==
    {[i \in 1..Len(page) |-> toDto(store[page[i]])] :
       page \in {IF take >= 0 THEN slice(o, skip, take)
                 ELSE LET n == Len(o) - skip
                          k == MathMin(0 - take, IF n > 0 THEN n ELSE 0)
                      IN [i \in 1..k |-> o[n - k + i]] :
                 o \in orderings(store, matching(store, w), orderBy)}}

\* the same without a page window
findAll(store, w, orderBy) ==
    {[i \in 1..Len(o) |-> toDto(store[o[i]])] :
       o \in orderings(store, matching(store, w), orderBy)}

(***************************************************************************)
(* TodoService.                                                            *)
(***************************************************************************)
\* TodoQueryParams: completed is "undefined", "true" or "false"; sortBy and
\* sortOrder are "" when absent; the others are optional strings
NoParams ==
    [completed |-> "undefined", priority |-> NoStr, search |-> NoStr, page |-> NoStr,
     limit |-> NoStr, sortBy |-> "", sortOrder |-> ""]

\* UpdateTodoData with every field undefined
NoUpdate ==
    [title |-> NoStr, description |-> NoStr, completed |-> NoBool, priority |-> NoStr,
     dueDate |-> NoStr]

\* a create that stores LOW when no priority is supplied
createTodoRowDefaultLow(id, userId, todoData, at) ==
    [id |-> id,
     title |-> todoData.title,
     description |-> IF Truthy(todoData.description) THEN todoData.description ELSE NoStr,
     completed |-> FALSE,
     priority |-> IF Truthy(todoData.priority) THEN todoData.priority.s ELSE LOW,
     dueDate |-> IF Truthy(todoData.dueDate) THEN DateAt(newDate(todoData.dueDate.s))
                 ELSE NoDate,
     createdAt |-> at,
     updatedAt |-> at,
     userId |-> userId]

\* the row prisma.todo.create stores for createTodo(userId, todoData)
createTodoRow(id, userId, todoData, at) ==
    [id |-> id,
     title |-> todoData.title,
     description |-> IF Truthy(todoData.description) THEN todoData.description ELSE NoStr,
     completed |-> FALSE,
     priority |-> IF Truthy(todoData.priority) THEN todoData.priority.s ELSE MEDIUM,
     dueDate |-> IF Truthy(todoData.dueDate) THEN DateAt(newDate(todoData.dueDate.s))
                 ELSE NoDate,
     createdAt |-> at,
     updatedAt |-> at,
     userId |-> userId]

\* the where clause of getTodos without its owner key
getTodosWhereAnyOwner(userId, params) ==
    [userId |-> "",
     completed |-> IF params.completed # "undefined" THEN Bool(params.completed = "true")
                   ELSE NoBool,
     priority |-> IF Truthy(params.priority) /\ isValidPriority(toUpperCase(params.priority.s))
                  THEN Str(toUpperCase(params.priority.s))
                  ELSE NoStr,
     search |-> IF Truthy(params.search) THEN params.search ELSE NoStr,
     overdueAt |-> NoDate]

\* the where clause getTodos builds
getTodosWhere(userId, params) ==
    [userId |-> userId,
     completed |-> IF params.completed # "undefined" THEN Bool(params.completed = "true")
                   ELSE NoBool,
     priority |-> IF Truthy(params.priority) /\ isValidPriority(toUpperCase(params.priority.s))
                  THEN Str(toUpperCase(params.priority.s))
                  ELSE NoStr,
     search |-> IF Truthy(params.search) THEN params.search ELSE NoStr,
     overdueAt |-> NoDate]

getTodosOrderByNewestOnly(params) ==
    (IF params.sortBy # "" /\ params.sortOrder # ""
     THEN <<[field |-> params.sortBy, dir |-> params.sortOrder]>>
     ELSE <<>>)
    \o <<[field |-> "createdAt", dir |-> "desc"]>>

\* the orderBy list getTodos builds
getTodosOrderBy(params) ==
    (IF params.sortBy # "" /\ params.sortOrder # ""
     THEN <<[field |-> params.sortBy, dir |-> params.sortOrder]>>
     ELSE <<>>)
    \o <<[field |-> "completed", dir |-> "asc"], [field |-> "createdAt", dir |-> "desc"]>>

getTodosPage(params) == parseInt(IF Truthy(params.page) THEN params.page.s ELSE DEFAULT_PAGE)

getTodosLimit(params) ==
    MathMin(parseInt(IF Truthy(params.limit) THEN params.limit.s ELSE DEFAULT_LIMIT),
            MAX_LIMIT)

\* the locals of getTodos before its two queries are sent
getTodosQuery(userId, params) ==
    [page |-> getTodosPage(params),
     limit |-> getTodosLimit(params),
     skip |-> (getTodosPage(params) - 1) * getTodosLimit(params),
     where |-> getTodosWhere(userId, params),
     orderBy |-> getTodosOrderBy(params)]

NoQuery ==
    [page |-> 0, limit |-> 0, skip |-> 0, where |-> NoWhere, orderBy |-> <<>>]

NoPagination ==
    [page |-> 0, limit |-> 0, total |-> 0, totalPages |-> Fin(0),
     hasNextPage |-> FALSE, hasPrevPage |-> FALSE]

createPaginatedResponse(data, page, limit, total) ==
    [data |-> data,
     pagination |->
        [page |-> page, limit |-> limit, total |-> total,
         totalPages |-> MathCeilDiv(total, limit),
         hasNextPage |-> LessThanNum(page, MathCeilDiv(total, limit)),
         hasPrevPage |-> page > 1]]

\* a lookup by id alone, as a where clause that forgot userId would do
getTodoByIdFoundAnyOwner(store, userId, todoId) == todoId \in DOMAIN store

\* the row findFirst({ where: { id, userId } }) finds for getTodoById, if any
getTodoByIdFound(store, userId, todoId) ==
    todoId \in DOMAIN store /\ store[todoId].userId = userId

\* an error that tells a foreign row from a missing one
getTodoByIdErrorLeaky(store, userId, todoId) ==
    IF todoId \in DOMAIN store THEN AuthorizationError("Access denied")
    ELSE NotFoundError("Todo")

\* what getTodoById throws when findFirst returned null
getTodoByIdError(store, userId, todoId) == NotFoundError("Todo")

\* an update that replaces the whole task by the payload: a field the payload
\* leaves out is reset
updateTodoRowReplacing(t, updateData, at) ==
    [t EXCEPT
       !.title = IF updateData.title.def THEN updateData.title.s ELSE @,
       !.description = updateData.description,
       !.completed = updateData.completed.b,
       !.priority = IF updateData.priority.def THEN updateData.priority.s ELSE MEDIUM,
       !.dueDate = IF Truthy(updateData.dueDate)
                   THEN DateAt(newDate(updateData.dueDate.s)) ELSE NoDate,
       !.updatedAt = at]

\* the data object updateTodo builds, applied to a row by prisma.todo.update
updateTodoRow(t, updateData, at) ==
    [t EXCEPT
       !.title = IF updateData.title.def THEN updateData.title.s ELSE @,
       !.description = IF updateData.description.def THEN updateData.description ELSE @,
       !.completed = IF updateData.completed.def THEN updateData.completed.b ELSE @,
       !.priority = IF updateData.priority.def THEN updateData.priority.s ELSE @,
       !.dueDate = IF updateData.dueDate.def
                   THEN (IF Truthy(updateData.dueDate)
                         THEN DateAt(newDate(updateData.dueDate.s)) ELSE NoDate)
                   ELSE @,
       !.updatedAt = at]

getTodosByPriorityWhere(userId, priority) ==
    [NoWhere EXCEPT !.userId = userId, !.priority = Str(priority)]

getOverdueTodosWhere(userId, at) ==
    [NoWhere EXCEPT !.userId = userId, !.completed = Bool(FALSE), !.overdueAt = DateAt(at)]

searchTodosWhere(userId, searchTerm) ==
    [NoWhere EXCEPT !.userId = userId, !.search = Str(searchTerm)]

(***************************************************************************)
(* Configuration, the JWT helpers, UserService and AuthService. Time is    *)
(* counted in days.                                                        *)
(***************************************************************************)
JWT_SECRET == "fallback-secret-change-in-production"
expiresIn == <<"7", "d">>
issuer == "todo-api"
audience == "todo-app"

\* the days in a time span written as a number followed by "d"
spanDays(span) == IF span[Len(span)] = "d" THEN parseDigits(span, 1, 0) ELSE 0

NoPayload == [userId |-> "", email |-> "", iat |-> 0, exp |-> 0, iss |-> "", aud |-> ""]
NoToken == [payload |-> NoPayload, signature |-> ""]
NoUser == [id |-> "", email |-> "", name |-> ""]
NoError ==
    [name |-> "", message |-> "", statusCode |-> 0, code |-> "", details |-> <<>>,
     isAppError |-> FALSE]

\* a token signed with exp = iat
generateTokenBornExpired(payload, at) ==
    [payload |-> [userId |-> payload.userId, email |-> payload.email, iat |-> at,
                  exp |-> at, iss |-> issuer, aud |-> audience],
     signature |-> JWT_SECRET]

\* jwt.sign(payload, secret, { expiresIn, issuer, audience }) at time at
generateToken(payload, at) ==
    [payload |-> [userId |-> payload.userId, email |-> payload.email, iat |-> at,
                  exp |-> at + spanDays(expiresIn), iss |-> issuer, aud |-> audience],
     signature |-> JWT_SECRET]

\* a verification that never looks at exp
verifyTokenIgnoringExp(token, at) ==
    IF token.signature # JWT_SECRET
    THEN [ok |-> FALSE, payload |-> NoPayload, error |-> ForeignError("JsonWebTokenError", "")]
    ELSE IF token.payload.aud # audience \/ token.payload.iss # issuer
    THEN [ok |-> FALSE, payload |-> NoPayload, error |-> ForeignError("JsonWebTokenError", "")]
    ELSE [ok |-> TRUE, payload |-> token.payload, error |-> NoError]

\* jwt.verify(token, secret, { issuer, audience }) at time at: the signature,
\* then the expiry, then audience and issuer
verifyToken(token, at) ==
    IF token.signature # JWT_SECRET
    THEN [ok |-> FALSE, payload |-> NoPayload, error |-> ForeignError("JsonWebTokenError", "")]
    ELSE IF at >= token.payload.exp
    THEN [ok |-> FALSE, payload |-> NoPayload, error |-> ForeignError("TokenExpiredError", "")]
    ELSE IF token.payload.aud # audience \/ token.payload.iss # issuer
    THEN [ok |-> FALSE, payload |-> NoPayload, error |-> ForeignError("JsonWebTokenError", "")]
    ELSE [ok |-> TRUE, payload |-> token.payload, error |-> NoError]

\* bcrypt.hash(password, 12)
bcryptHash == "pw1" :> "hash1" @@ "pw2" :> "hash2"

\* UserService.validatePassword: bcrypt.compare(plain, hashed)
validatePassword(plainPassword, hashedPassword) == bcryptHash[plainPassword] = hashedPassword

\* UserService.findUserByEmail: the ids of the rows with that email
findUserByEmail(store, email) == {id \in DOMAIN store : store[id].email = email}

\* UserService.findUserById
findUserById(store, id) == id \in DOMAIN store

\* the select list { id, email, name } of an AuthUser
toAuthUser(u) == [id |-> u.id, email |-> u.email, name |-> u.name]

\* a verification that trusts the payload of the token and asks no store
AuthService_verifyTokenStateless(store, token, at) ==
    LET decoded == verifyToken(token, at) IN
      IF decoded.ok
      THEN [ok |-> TRUE,
            user |-> [id |-> decoded.payload.userId, email |-> decoded.payload.email,
                      name |-> ""],
            error |-> NoError]
      ELSE [ok |-> FALSE, user |-> NoUser,
            error |-> AuthenticationError("Invalid or expired token")]

\* AuthService.verifyToken: every failure inside becomes one AuthenticationError
AuthService_verifyToken(store, token, at) ==
    LET decoded == verifyToken(token, at) IN
      IF decoded.ok /\ findUserById(store, decoded.payload.userId)
      THEN [ok |-> TRUE, user |-> toAuthUser(store[decoded.payload.userId]), error |-> NoError]
      ELSE [ok |-> FALSE, user |-> NoUser,
            error |-> AuthenticationError("Invalid or expired token")]

\* an Authorization header: absent, or a scheme followed or not by a token
NoHeader == [def |-> FALSE, scheme |-> "", hasToken |-> FALSE, token |-> NoToken]
Bearer(token) == [def |-> TRUE, scheme |-> "Bearer", hasToken |-> TRUE, token |-> token]
SchemeOnly == [def |-> TRUE, scheme |-> "Bearer", hasToken |-> FALSE, token |-> NoToken]

\* authHeader && authHeader.split(' ')[1] is truthy
headerHasToken(authHeader) == authHeader.def /\ authHeader.hasToken

(***************************************************************************)
(* Inputs of the service specification.                                    *)
(***************************************************************************)
sBuyMilk == <<"B", "u", "y", " ", "m", "i", "l", "k">>
sTea == <<"T", "e", "a">>
sGetMilk == <<"G", "e", "t", " ", "M", "i", "l", "k">>
sMilk == <<"m", "i", "l", "k">>
sDay1 == <<"D", "1">>

\* CreateTodoData payloads after validateBody(createTodoSchema)
CreateInputs ==
    {[title |-> sTea, description |-> Str(sGetMilk), priority |-> Str(HIGH),
      dueDate |-> Str(sDay1)]}

\* UpdateTodoData payloads after validateBody(updateTodoSchema)
UpdateInputs ==
    {[NoUpdate EXCEPT !.completed = Bool(TRUE)]}

\* TodoQueryParams after validateQuery(todoQuerySchema)
ServiceQueries ==
    {[NoParams EXCEPT !.limit = Str(<<"1">>)],
     [NoParams EXCEPT !.page = Str(<<"2">>), !.limit = Str(<<"1">>)]}

TodoIds == 1..MaxTodos

(***************************************************************************)
(* State: the users and todos tables, the owner each id was created under, *)
(* the clock, the requests suspended between two storage calls, and the    *)
(* response last sent (acknowledged before the next step is looked at).    *)
(***************************************************************************)
\* a register or login body with nothing in it
NoBody == [email |-> "", password |-> ""]

\* TodoStats with every count zero
NoStats ==
    [total |-> 0, completed |-> 0, pending |-> 0, overdue |-> 0,
     byPriority |-> [p \in {LOW, MEDIUM, HIGH} |-> 0]]

NoReq ==
    [op |-> "", userId |-> "", todoId |-> 0, data |-> NoUpdate, read |-> FALSE,
     params |-> NoParams, q |-> NoQuery, first |-> "", items |-> <<>>, total |-> 0,
     token |-> NoToken, raw |-> NoUpdate, arg |-> <<>>, stages |-> <<>>,
     at |-> 0, answers |-> <<>>, body |-> NoBody]

\* the response last sent, with what the request carried (arg, params, body,
\* payload, token), the error thrown for it, the middleware that ran for it (stages)
\* and the completed value a toggle overwrote (prior)
NoResp ==
    [op |-> "none", userId |-> "", todoId |-> 0, arg |-> <<>>, params |-> NoParams,
     ok |-> FALSE, status |-> 0, code |-> "", error |-> "", data |-> <<>>,
     pagination |-> NoPagination, token |-> NoToken, user |-> NoUser,
     details |-> <<>>, thrown |-> NoError, body |-> NoBody, prior |-> NoBool,
     stages |-> <<>>, payload |-> NoUpdate, stats |-> NoStats]

\* res.status(status).json({ success: true, data })
success(op, userId, todoId, status, data) ==
    [NoResp EXCEPT !.op = op, !.userId = userId, !.todoId = todoId, !.ok = TRUE,
                   !.status = status, !.data = data]

\* the error reaches errorHandler through asyncHandler's catch(next)
failure(op, userId, todoId, error) ==
    [NoResp EXCEPT !.op = op, !.userId = userId, !.todoId = todoId, !.ok = FALSE,
                   !.status = errorHandler(error).status,
                   !.code = errorHandler(error).code,
                   !.error = errorHandler(error).error,
                   !.details = errorHandler(error).details,
                   !.thrown = error]

RecordNotFound == ForeignError("PrismaClientKnownRequestError", "P2025")

Registered ==
    [u \in UserIds |->
       [id |-> u, email |-> IF u = "u1" THEN "a@x.io" ELSE "b@x.io",
        password |-> "hash1", name |-> ""]]

Init ==
    /\ users = Registered
    /\ todos = <<>>
    /\ createdBy = <<>>
    /\ now = 2
    /\ inflight = EmptyBag
    /\ resp = NoResp
    /\ tokens = {}

Idle == resp.op = "none"

Suspend(r) == inflight' = inflight (+) SetToBag({r})
Resume(r) == inflight' = inflight (-) SetToBag({r})
CanSuspend == BagCardinality(inflight) < MaxInflight

\* POST /: createTodo, one storage call
CreateTodo(userId, todoData) ==
    /\ Idle
    /\ Len(createdBy) < MaxTodos
    /\ LET id == Len(createdBy) + 1 IN
         IF userId \in DOMAIN users
         THEN /\ todos' = (id :> createTodoRow(id, userId, todoData, now)) @@ todos
              /\ createdBy' = Append(createdBy, userId)
              /\ resp' = success("createTodo", userId, id, 201,
                                 <<toDto(createTodoRow(id, userId, todoData, now))>>)
         ELSE /\ UNCHANGED <<todos, createdBy>>
              /\ resp' = failure("createTodo", userId, 0, RecordNotFound)
    /\ UNCHANGED <<users, now, inflight, tokens>>

\* GET /:id: getTodoById, one storage call
GetTodoById(userId, todoId) ==
    /\ Idle
    /\ resp' = IF getTodoByIdFound(todos, userId, todoId)
               THEN success("getTodoById", userId, todoId, 200, <<toDto(todos[todoId])>>)
               ELSE failure("getTodoById", userId, todoId,
                            getTodoByIdError(todos, userId, todoId))
    /\ UNCHANGED <<users, todos, createdBy, now, inflight, tokens>>

\* the ownership check that opens updateTodo, deleteTodo and toggleTodoCompletion
\* at most limit requests are suspended at once
CheckOwnedAmong(limit, op, userId, todoId, data) ==
    /\ Idle
    /\ IF getTodoByIdFound(todos, userId, todoId)
       THEN /\ BagCardinality(inflight) < limit
            /\ Suspend([NoReq EXCEPT !.op = op, !.userId = userId, !.todoId = todoId,
                                     !.data = data,
                                     !.read = IF op = "toggleTodoCompletion"
                                              THEN todos[todoId].completed
                                              ELSE FALSE])
            /\ UNCHANGED resp
       ELSE /\ resp' = failure(op, userId, todoId, getTodoByIdError(todos, userId, todoId))
            /\ UNCHANGED inflight
    /\ UNCHANGED <<users, todos, createdBy, now, tokens>>

CheckOwned(op, userId, todoId, data) == CheckOwnedAmong(MaxInflight, op, userId, todoId, data)

UpdateTodoCheck(userId, todoId, updateData) ==
    CheckOwned("updateTodo", userId, todoId, updateData)

DeleteTodoCheck(userId, todoId) == CheckOwned("deleteTodo", userId, todoId, NoUpdate)

ToggleTodoRead(userId, todoId) ==
    CheckOwned("toggleTodoCompletion", userId, todoId, NoUpdate)

\* prisma.todo.update({ where: { id: todoId }, data }) of updateTodo
UpdateTodoWrite(r) ==
    /\ Idle
    /\ r \in BagToSet(inflight) /\ r.op = "updateTodo"
    /\ Resume(r)
    /\ IF r.todoId \in DOMAIN todos
       THEN /\ todos' = [todos EXCEPT ![r.todoId] = updateTodoRow(@, r.data, now)]
            /\ resp' = success(r.op, r.userId, r.todoId, 200,
                               <<toDto(updateTodoRow(todos[r.todoId], r.data, now))>>)
       ELSE /\ UNCHANGED todos
            /\ resp' = failure(r.op, r.userId, r.todoId, RecordNotFound)
    /\ UNCHANGED <<users, createdBy, now, tokens>>

\* a delete that takes the owner's other tasks along
deleteTodoRowAndSiblings(store, todoId) ==
    [id \in {x \in DOMAIN store : store[x].userId # store[todoId].userId} |-> store[id]]

\* the table after prisma.todo.delete({ where: { id: todoId } })
deleteTodoRow(store, todoId) == [id \in DOMAIN store \ {todoId} |-> store[id]]

\* prisma.todo.delete({ where: { id: todoId } }) of deleteTodo
DeleteTodoWrite(r) ==
    /\ Idle
    /\ r \in BagToSet(inflight) /\ r.op = "deleteTodo"
    /\ Resume(r)
    /\ IF r.todoId \in DOMAIN todos
       THEN /\ todos' = deleteTodoRow(todos, r.todoId)
            /\ resp' = success(r.op, r.userId, r.todoId, 200, <<>>)
       ELSE /\ UNCHANGED todos
            /\ resp' = failure(r.op, r.userId, r.todoId, RecordNotFound)
    /\ UNCHANGED <<users, createdBy, now, tokens>>

\* a toggle whose write negates the value stored at the time of the write
toggleTodoRowOfStored(t, read, at) == [t EXCEPT !.completed = ~t.completed, !.updatedAt = at]

\* the row after prisma.todo.update with data { completed: !existingTodo.completed },
\* read being existingTodo.completed
toggleTodoRow(t, read, at) == [t EXCEPT !.completed = ~read, !.updatedAt = at]

ToggleTodoWriteSilent(r) ==
    /\ Idle
    /\ r \in BagToSet(inflight) /\ r.op = "toggleTodoCompletion"
    /\ Resume(r)
    /\ IF r.todoId \in DOMAIN todos
       THEN /\ todos' = [todos EXCEPT ![r.todoId] = toggleTodoRow(@, r.read, now)]
            /\ resp' = [success(r.op, r.userId, r.todoId, 200,
                                <<toDto(toggleTodoRow(todos[r.todoId], r.read, now))>>)
                          EXCEPT !.prior = Bool(todos[r.todoId].completed)]
       ELSE /\ UNCHANGED todos
            /\ resp' = success(r.op, r.userId, r.todoId, 200, <<>>)
    /\ UNCHANGED <<users, createdBy, now, tokens>>

\* prisma.todo.update({ where: { id }, data: { completed: !existingTodo.completed } })
ToggleTodoWrite(r) ==
    /\ Idle
    /\ r \in BagToSet(inflight) /\ r.op = "toggleTodoCompletion"
    /\ Resume(r)
    /\ IF r.todoId \in DOMAIN todos
       THEN /\ todos' = [todos EXCEPT ![r.todoId] = toggleTodoRow(@, r.read, now)]
            /\ resp' = [success(r.op, r.userId, r.todoId, 200,
                                <<toDto(toggleTodoRow(todos[r.todoId], r.read, now))>>)
                          EXCEPT !.prior = Bool(todos[r.todoId].completed)]
       ELSE /\ UNCHANGED todos
            /\ resp' = failure(r.op, r.userId, r.todoId, RecordNotFound)
    /\ UNCHANGED <<users, createdBy, now, tokens>>

\* findMany of getTodos rejects a negative skip, which rejects the Promise.all
SkipRejected == ForeignError("PrismaClientValidationError", "")

\* the scalar columns of the todos table, the only keys findMany can order by
TodoColumns ==
    {"id", "title", "description", "completed", "priority", "dueDate",
     "createdAt", "updatedAt", "userId"}

\* findMany rejects an orderBy entry that names no column of the table
orderByRejected(orderBy) ==
    \E i \in 1..Len(orderBy) : orderBy[i].field \notin TodoColumns

paginated(userId, params, items, q, total) ==
    [NoResp EXCEPT !.op = "getTodos", !.userId = userId, !.params = params, !.ok = TRUE,
                   !.status = 200,
                   !.data = createPaginatedResponse(items, q.page, q.limit, total).data,
                   !.pagination =
                       createPaginatedResponse(items, q.page, q.limit, total).pagination]

\* GET /: getTodos up to the first answer of its two queries, here findMany
GetTodosFindFirst(userId, params) ==
    /\ Idle
    /\ LET q == getTodosQuery(userId, params) IN
         IF q.skip < 0
         THEN /\ resp' = [failure("getTodos", userId, 0, SkipRejected)
                            EXCEPT !.params = params]
              /\ UNCHANGED inflight
         ELSE /\ CanSuspend
              /\ \E items \in findMany(todos, q.where, q.orderBy, q.skip, q.limit) :
                    Suspend([NoReq EXCEPT !.op = "getTodos", !.userId = userId,
                                          !.params = params, !.q = q,
                                          !.first = "findMany", !.items = items])
              /\ UNCHANGED resp
    /\ UNCHANGED <<users, todos, createdBy, now, tokens>>

\* GET /: getTodos up to the first answer of its two queries, here count
GetTodosCountFirst(userId, params) ==
    /\ Idle
    /\ CanSuspend
    /\ LET q == getTodosQuery(userId, params) IN
         Suspend([NoReq EXCEPT !.op = "getTodos", !.userId = userId, !.params = params,
                               !.q = q, !.first = "count",
                               !.total = count(todos, q.where)])
    /\ UNCHANGED <<users, todos, createdBy, now, resp, tokens>>

\* the second answer arrives and getTodos returns createPaginatedResponse
GetTodosFinish(r) ==
    /\ Idle
    /\ r \in BagToSet(inflight) /\ r.op = "getTodos"
    /\ Resume(r)
    /\ IF r.first = "findMany"
       THEN resp' = paginated(r.userId, r.params, r.items, r.q, count(todos, r.q.where))
       ELSE IF r.q.skip < 0
       THEN resp' = [failure("getTodos", r.userId, 0, SkipRejected)
                       EXCEPT !.params = r.params]
       ELSE \E items \in findMany(todos, r.q.where, r.q.orderBy, r.q.skip, r.q.limit) :
               resp' = paginated(r.userId, r.params, items, r.q, r.total)
    /\ UNCHANGED <<users, todos, createdBy, now, tokens>>

listed(op, userId, arg, items) ==
    [NoResp EXCEPT !.op = op, !.userId = userId, !.arg = arg, !.ok = TRUE,
                   !.status = 200, !.data = items]

CreatedDesc == <<[field |-> "createdAt", dir |-> "desc"]>>
DueAsc == <<[field |-> "dueDate", dir |-> "asc"]>>

\* GET /priority/:priority: the route upper-cases the path parameter
GetTodosByPriority(userId, priority) ==
    /\ Idle
    /\ \E items \in findAll(todos, getTodosByPriorityWhere(userId, toUpperCase(priority)),
                            CreatedDesc) :
          resp' = listed("getTodosByPriority", userId, priority, items)
    /\ UNCHANGED <<users, todos, createdBy, now, inflight, tokens>>

\* GET /status/overdue
GetOverdueTodos(userId) ==
    /\ Idle
    /\ \E items \in findAll(todos, getOverdueTodosWhere(userId, now), DueAsc) :
          resp' = listed("getOverdueTodos", userId, <<>>, items)
    /\ UNCHANGED <<users, todos, createdBy, now, inflight, tokens>>

\* GET /search/:term
SearchTodos(userId, searchTerm) ==
    /\ Idle
    /\ \E items \in findAll(todos, searchTodosWhere(userId, searchTerm), CreatedDesc) :
          resp' = listed("searchTodos", userId, searchTerm, items)
    /\ UNCHANGED <<users, todos, createdBy, now, inflight, tokens>>

\* the client takes the response
Ack ==
    /\ ~Idle
    /\ resp' = NoResp
    /\ UNCHANGED <<users, todos, createdBy, now, inflight, tokens>>

PriorityArgs == {<<"h", "i", "g", "h">>}
SearchArgs == {sMilk}

Next ==
    \/ \E u \in UserIds, d \in CreateInputs : CreateTodo(u, d)
    \/ \E u \in UserIds, id \in TodoIds : GetTodoById(u, id)
    \/ \E u \in UserIds, id \in TodoIds, d \in UpdateInputs : UpdateTodoCheck(u, id, d)
    \/ \E u \in UserIds, id \in TodoIds : DeleteTodoCheck(u, id)
    \/ \E u \in UserIds, id \in TodoIds : ToggleTodoRead(u, id)
    \/ \E r \in BagToSet(inflight) : UpdateTodoWrite(r)
    \/ \E r \in BagToSet(inflight) : DeleteTodoWrite(r)
    \/ \E r \in BagToSet(inflight) : ToggleTodoWrite(r)
    \/ \E u \in UserIds, p \in ServiceQueries : GetTodosFindFirst(u, p)
    \/ \E u \in UserIds, p \in ServiceQueries : GetTodosCountFirst(u, p)
    \/ \E r \in BagToSet(inflight) : GetTodosFinish(r)
    \/ \E u \in UserIds, p \in PriorityArgs : GetTodosByPriority(u, p)
    \/ \E u \in UserIds : GetOverdueTodos(u)
    \/ \E u \in UserIds, t \in SearchArgs : SearchTodos(u, t)
    \/ Ack

Spec == Init /\ [][Next]_vars

(***************************************************************************)
(* Properties of the service specification.                                *)
(***************************************************************************)
ReadOps == {"getTodos", "getTodoById", "searchTodos", "getTodosByPriority", "getOverdueTodos"}
MutationOps == {"updateTodo", "deleteTodo", "toggleTodoCompletion"}

\* the response is the NotFoundError('Todo') of getTodoById
IsTodoNotFound(r) ==
    /\ ~r.ok
    /\ r.status = 404
    /\ r.code = "NOT_FOUND_ERROR"
    /\ r.error = "Todo not found"

\* C1: whatever creates, updates, deletes and toggles came before, every task
\* a read operation returns was created under the owner the read ran under.
C1_ReadIsolation ==
    (resp.ok /\ resp.op \in ReadOps) =>
        \A i \in 1..Len(resp.data) : createdBy[resp.data[i].id] = resp.userId

\* a search under one owner returned tasks while the store held a task of
\* another owner
C1_Witness ==
    /\ resp.ok /\ resp.op = "searchTodos" /\ Len(resp.data) > 0
    /\ \E id \in DOMAIN todos : todos[id].userId # resp.userId

\* C2: getTodoById for a task of another owner and getTodoById for an id that
\* does not exist are answered by the same error: 404, NOT_FOUND_ERROR,
\* 'Todo not found'; never by a 403.
C2_ForeignLooksAbsent ==
    (resp.op = "getTodoById"
       /\ (resp.todoId \notin DOMAIN todos \/ todos[resp.todoId].userId # resp.userId))
    => IsTodoNotFound(resp)

\* getTodoById was answered for an existing task of another owner
C2_Witness ==
    /\ resp.op = "getTodoById"
    /\ resp.todoId \in DOMAIN todos
    /\ todos[resp.todoId].userId # resp.userId
    /\ IsTodoNotFound(resp)

\* C3: an update, delete or toggle under an owner who did not create the task
\* is answered by NotFoundError and changes no stored task; a step changes or
\* removes a task only as the write of a request of that task's owner.
C3_MutationOwnerScoped ==
    [][/\ (resp'.op \in MutationOps /\ resp.op = "none"
             /\ resp'.todoId \in 1..Len(createdBy)
             /\ createdBy[resp'.todoId] # resp'.userId)
          => (IsTodoNotFound(resp') /\ todos' = todos)
       /\ \A id \in DOMAIN todos :
            (id \notin DOMAIN todos' \/ todos'[id] # todos[id])
            => \E r \in BagToSet(inflight) :
                  /\ r.op \in MutationOps /\ r.todoId = id
                  /\ r.userId = todos[id].userId
                  /\ inflight' = inflight (-) SetToBag({r})]_vars

\* a mutation under another owner was refused while the task was stored and a
\* request was suspended
C3_Witness ==
    /\ resp.op \in MutationOps
    /\ resp.todoId \in DOMAIN todos
    /\ todos[resp.todoId].userId # resp.userId
    /\ IsTodoNotFound(resp)
    /\ inflight # EmptyBag

Min(a, b) == IF a < b THEN a ELSE b
Max(a, b) == IF a > b THEN a ELSE b

\* C5: every getTodos result holds at most limit items, and exactly
\* min(limit, max(0, total - (page-1)*limit)) of them, for the total, page and
\* limit it reports.
C5_PageSizeMatchesTotal ==
    (resp.ok /\ resp.op = "getTodos") =>
        LET pg == resp.pagination IN
          /\ Len(resp.data) <= pg.limit
          /\ Len(resp.data) = Min(pg.limit, Max(0, pg.total - (pg.page - 1) * pg.limit))

\* the ids given out so far that are no longer stored
Deleted(store, given) == (1..Len(given)) \ DOMAIN store

\* the request that answers in this step read its rows in an earlier one
AnswersFromEarlierRead ==
    \E r \in BagToSet(inflight) :
       r.first = "findMany" /\ inflight' = inflight (-) SetToBag({r})

\* C19: a deleteTodo that succeeds removes the task with its id and leaves
\* every other task as it was; a deleted task never comes back; a getTodoById,
\* updateTodo, toggleTodoCompletion or deleteTodo that starts on the id of a
\* deleted task fails with NotFoundError('Todo'); no operation reads a row
\* that is not stored at the time of the read
C19_DeletedIsGone ==
    [][/\ (resp.op = "none" /\ resp'.op = "deleteTodo" /\ resp'.ok) =>
            /\ resp'.todoId \in DOMAIN todos
            /\ DOMAIN todos' = DOMAIN todos \ {resp'.todoId}
            /\ \A id \in DOMAIN todos' : todos'[id] = todos[id]
       /\ \A id \in Deleted(todos, createdBy) :
            /\ id \notin DOMAIN todos'
            /\ (resp.op = "none" /\ resp'.op \in MutationOps \cup {"getTodoById"}
                /\ resp'.todoId = id /\ inflight' = inflight) =>
                  IsTodoNotFound(resp')
       /\ (resp.op = "none" /\ resp'.ok /\ resp'.op # "createTodo"
           /\ ~AnswersFromEarlierRead) =>
            \A i \in 1..Len(resp'.data) : resp'.data[i].id \in DOMAIN todos
       /\ \A r \in BagToSet(inflight') :
            inflight' = inflight (+) SetToBag({r}) =>
              \A i \in 1..Len(r.items) : r.items[i].id \in DOMAIN todos]_vars

\* the owner of a deleted task toggled it after the delete and got
\* NotFoundError('Todo'), while another task is stored
C19_Witness ==
    /\ resp.op = "toggleTodoCompletion"
    /\ IsTodoNotFound(resp)
    /\ resp.todoId \in Deleted(todos, createdBy)
    /\ createdBy[resp.todoId] = resp.userId
    /\ todos # <<>>

(***************************************************************************)
(* The query specification: getTodos and the list operations on stores     *)
(* drawn from sample rows, with no other request running.                  *)
(***************************************************************************)
\* the size of the store in the pagination example
ExampleTotal == 25

sTE == <<"T", "E">>
sX == <<"x">>

Row(id, userId, title, description, completed, priority, dueDate, createdAt, updatedAt) ==
    [id |-> id, title |-> title, description |-> description, completed |-> completed,
     priority |-> priority, dueDate |-> dueDate, createdAt |-> createdAt,
     updatedAt |-> updatedAt, userId |-> userId]

\* rows as createTodo, updateTodo and toggleTodoCompletion leave them
SampleRows ==
    << Row(1, "u1", sBuyMilk, NoStr, FALSE, LOW, NoDate, 1, 1),
       Row(2, "u1", sTea, Str(sGetMilk), TRUE, HIGH, DateAt(1), 2, 3),
       Row(3, "u1", sTea, NoStr, FALSE, HIGH, DateAt(8), 1, 1),
       Row(4, "u2", sBuyMilk, Str(sGetMilk), FALSE, MEDIUM, DateAt(1), 3, 3),
       Row(5, "u2", sTea, NoStr, TRUE, LOW, NoDate, 3, 4),
       Row(6, "u1", sGetMilk, Str(sTea), FALSE, MEDIUM, DateAt(1), 4, 4) >>

\* the stores left of the sample rows after deletes: at most MaxRows rows
SampleStores ==
    {[rows |-> [id \in S |-> SampleRows[id]],
      owners |-> [i \in 1..Len(SampleRows) |-> SampleRows[i].userId],
      at |-> 5] :
       S \in {T \in SUBSET (1..Len(SampleRows)) : Cardinality(T) <= MaxRows}}

\* ExampleTotal tasks of u1, one created each day, and one task of u2
BulkStore ==
    [rows |-> [id \in 1..(ExampleTotal + 1) |->
                 Row(id, IF id <= ExampleTotal THEN "u1" ELSE "u2", sTea, NoStr, FALSE,
                     MEDIUM, NoDate, id, id)],
     owners |-> [id \in 1..(ExampleTotal + 1) |-> IF id <= ExampleTotal THEN "u1" ELSE "u2"],
     at |-> ExampleTotal + 5]

IsBulk(store) == Cardinality(DOMAIN store) > Len(SampleRows)

QueryLimits ==
    {NoStr, Str(<<"1">>), Str(<<"2">>), Str(<<"1", "0">>), Str(<<"0">>), Str(<<"-", "1">>),
     Str(<<"1", "0", "1">>)}

\* TodoQueryParams as a caller of the service may pass them
QueryParams ==
    {[completed |-> c, priority |-> pr, search |-> se, page |-> pg, limit |-> li,
      sortBy |-> so[1], sortOrder |-> so[2]] :
       c \in {"undefined", "true", "false"},
       pr \in {NoStr, Str(<<"h", "i", "g", "h">>), Str(<<>>)},
       se \in {NoStr, Str(sMilk), Str(sTE)},
       pg \in {NoStr, Str(<<"1">>), Str(<<"2">>)},
       li \in QueryLimits,
       so \in {<<"", "">>, <<"title", "asc">>}}

\* the page requests of the pagination example
BulkParams ==
    {[NoParams EXCEPT !.page = pg, !.limit = li] :
       pg \in {NoStr, Str(<<"2">>), Str(<<"3">>), Str(<<"4">>)},
       li \in {NoStr, Str(<<"1", "0">>)}}

ParamsFor(store) == IF IsBulk(store) THEN BulkParams ELSE QueryParams

\* the keys of a query todoQuerySchema rejects, in schema order
todoQuerySchemaIssues(params) ==
    (IF params.completed \in {"undefined", "true", "false"} THEN <<>> ELSE <<"completed">>)
    \o (IF ~Truthy(params.priority) \/ isValidPriority(toUpperCase(params.priority.s))
        THEN <<>> ELSE <<"priority">>)
    \o (IF ~Truthy(params.page) \/ parseInt(params.page.s) > 0 THEN <<>> ELSE <<"page">>)
    \o (IF ~Truthy(params.limit)
           \/ (parseInt(params.limit.s) > 0 /\ parseInt(params.limit.s) <= MAX_LIMIT)
        THEN <<>> ELSE <<"limit">>)
    \o (IF params.sortBy = "" \/ params.sortBy \in TODO_SORT_FIELDS
        THEN <<>> ELSE <<"sortBy">>)
    \o (IF params.sortOrder = "" \/ params.sortOrder \in SORT_ORDERS
        THEN <<>> ELSE <<"sortOrder">>)
    \o (IF ~params.search.def \/ (Len(params.search.s) >= 1 /\ Len(params.search.s) <= 100)
        THEN <<>> ELSE <<"search">>)

\* validateQuery(todoQuerySchema): does schema.parse accept the query
todoQuerySchema(params) ==
    /\ params.completed \in {"undefined", "true", "false"}
    /\ ~Truthy(params.priority) \/ isValidPriority(toUpperCase(params.priority.s))
    /\ ~Truthy(params.page) \/ parseInt(params.page.s) > 0
    /\ ~Truthy(params.limit)
         \/ (parseInt(params.limit.s) > 0 /\ parseInt(params.limit.s) <= MAX_LIMIT)
    /\ params.sortBy = "" \/ params.sortBy \in TODO_SORT_FIELDS
    /\ params.sortOrder = "" \/ params.sortOrder \in SORT_ORDERS
    /\ ~params.search.def \/ (Len(params.search.s) >= 1 /\ Len(params.search.s) <= 100)

InitQuery ==
    /\ users = Registered
    /\ \E st \in SampleStores \cup {BulkStore} :
          /\ todos = st.rows
          /\ createdBy = st.owners
          /\ now = st.at
    /\ inflight = EmptyBag
    /\ resp = NoResp
    /\ tokens = {}

\* getTodos with both of its queries answered before any other request runs
GetTodos(userId, params) ==
    /\ Idle
    /\ LET q == getTodosQuery(userId, params) IN
         IF q.skip < 0 \/ orderByRejected(q.orderBy)
         THEN resp' = [failure("getTodos", userId, 0, SkipRejected) EXCEPT !.params = params]
         ELSE \E items \in findMany(todos, q.where, q.orderBy, q.skip, q.limit) :
                 resp' = paginated(userId, params, items, q, count(todos, q.where))
    /\ UNCHANGED <<users, todos, createdBy, now, inflight, tokens>>

\* GET /: validateQuery(todoQuerySchema), then getTodos
GetTodosRoute(userId, params) ==
    /\ Idle
    /\ IF ~todoQuerySchema(params)
       THEN resp' = [failure("GET /", userId, 0, ValidationError("Query validation failed",
                                               todoQuerySchemaIssues(params)))
                       EXCEPT !.params = params]
       ELSE LET q == getTodosQuery(userId, params) IN
              \E items \in findMany(todos, q.where, q.orderBy, q.skip, q.limit) :
                 resp' = [paginated(userId, params, items, q, count(todos, q.where))
                            EXCEPT !.op = "GET /"]
    /\ UNCHANGED <<users, todos, createdBy, now, inflight, tokens>>

QueryPriorityArgs == {<<"h", "i", "g", "h">>, <<"l", "o", "w">>}
QuerySearchArgs == {sMilk, sTE, sX}

NextQuery ==
    \/ Idle /\ \E u \in UserIds, p \in ParamsFor(todos) : GetTodos(u, p)
    \/ Idle /\ \E u \in UserIds, p \in ParamsFor(todos) : GetTodosRoute(u, p)
    \/ \E u \in UserIds, p \in QueryPriorityArgs : GetTodosByPriority(u, p)
    \/ \E u \in UserIds : GetOverdueTodos(u)
    \/ \E u \in UserIds, t \in QuerySearchArgs : SearchTodos(u, t)
    \/ Ack

SpecQuery == InitQuery /\ [][NextQuery]_vars

(***************************************************************************)
(* Properties of the query specification. The reference selection below is *)
(* written from the filter's description, not from the where clause.       *)
(***************************************************************************)
\* two characters that are the same letter in either case
SameLetter(a, b) ==
    \/ a = b
    \/ \E x \in DOMAIN UpperOf : {a, b} = {x, UpperOf[x]}

\* term occurs in text at some offset, letters compared without case
RefContains(text, term) ==
    \E off \in 0..(Len(text) - Len(term)) :
        \A i \in 1..Len(term) : SameLetter(text[off + i], term[i])

RefSameWord(a, b) == Len(a) = Len(b) /\ RefContains(a, b)

\* the owner's rows that pass the completed, priority and search filters
RefSelected(store, userId, params) ==
    {id \in DOMAIN store :
       /\ store[id].userId = userId
       /\ params.completed = "true" => store[id].completed
       /\ params.completed = "false" => ~store[id].completed
       /\ (params.priority.def /\ params.priority.s # <<>>)
            => RefSameWord(store[id].priority, params.priority.s)
       /\ (params.search.def /\ params.search.s # <<>>)
            => \/ RefContains(store[id].title, params.search.s)
               \/ (store[id].description.def
                     /\ RefContains(store[id].description.s, params.search.s))}

DataIds(r) == {r.data[i].id : i \in 1..Len(r.data)}

\* n = ceil(a / b) for integers a and b # 0
IsCeil(n, a, b) ==
    IF b > 0 THEN n * b >= a /\ (n - 1) * b < a
    ELSE n * b <= a /\ (n - 1) * b > a

\* C4: the total of a getTodos result is the number of the owner's stored
\* tasks that pass the completed, priority and search filters; page and limit
\* have no part in it.
C4_TotalIsFilteredCount ==
    (resp.ok /\ resp.op = "getTodos") =>
        resp.pagination.total = Cardinality(RefSelected(todos, resp.userId, resp.params))

\* page 2 with limit 1 of a search reported total 2 out of a store of 3 rows
C4_Witness ==
    /\ resp.ok /\ resp.op = "getTodos"
    /\ resp.params.search = Str(sTE)
    /\ resp.pagination.page = 2 /\ resp.pagination.limit = 1
    /\ resp.pagination.total = 2
    /\ Cardinality(DOMAIN todos) = 3

\* C6: in every getTodos result hasPrevPage = (page > 1), totalPages =
\* ceil(total / limit) and hasNextPage = (page < totalPages); with ExampleTotal
\* matching tasks, page 2 with limit 10 holds the 11th to 20th newest tasks,
\* totalPages = 3, hasNextPage and hasPrevPage.
C6_PaginationMetadata ==
    (resp.ok /\ resp.op = "getTodos") =>
        LET pg == resp.pagination IN
          /\ pg.hasPrevPage = (pg.page > 1)
          /\ pg.limit # 0 =>
                /\ pg.totalPages.fin
                /\ IsCeil(pg.totalPages.v, pg.total, pg.limit)
                /\ pg.hasNextPage = (pg.page < pg.totalPages.v)
          /\ (IsBulk(todos) /\ pg.total = 25 /\ pg.page = 2 /\ pg.limit = 10) =>
                /\ Len(resp.data) = 10
                /\ \A i \in 1..10 : resp.data[i].id = pg.total - (10 + i) + 1
                /\ pg.totalPages = Fin(3)
                /\ pg.hasNextPage /\ pg.hasPrevPage

\* the example: 25 matching tasks, page 2, limit 10
C6_Witness ==
    /\ resp.ok /\ resp.op = "getTodos"
    /\ resp.pagination.total = 25
    /\ resp.pagination.page = 2 /\ resp.pagination.limit = 10
    /\ resp.pagination.totalPages = Fin(3)
    /\ resp.pagination.hasNextPage /\ resp.pagination.hasPrevPage
    /\ Len(resp.data) = 10
    /\ resp.data[1].id = 15 /\ resp.data[10].id = 6

\* C7: whatever limit a getTodos call is given, the limit of its result lies
\* in 1..MAX_LIMIT, and is 10 when no limit is given.
C7_LimitClamped ==
    (resp.ok /\ resp.op = "getTodos") =>
        /\ resp.pagination.limit >= 1 /\ resp.pagination.limit <= 100
        /\ ~resp.params.limit.def => resp.pagination.limit = 10

\* C8: getTodos returns only rows of the reference selection, no row twice,
\* and all of them when the page holds the whole result; searchTodos returns
\* exactly the owner's rows whose title or description contains the term
\* without regard to case.
C8_SelectionIsFilter ==
    /\ (resp.ok /\ resp.op = "getTodos") =>
          /\ DataIds(resp) \subseteq RefSelected(todos, resp.userId, resp.params)
          /\ Cardinality(DataIds(resp)) = Len(resp.data)
          /\ (resp.pagination.page = 1 /\ resp.pagination.limit >= resp.pagination.total)
                => DataIds(resp) = RefSelected(todos, resp.userId, resp.params)
    /\ (resp.ok /\ resp.op = "searchTodos") =>
          /\ DataIds(resp) = RefSelected(todos, resp.userId,
                                         [NoParams EXCEPT !.search = Str(resp.arg)])
          /\ Cardinality(DataIds(resp)) = Len(resp.data)

\* search "milk" with completed and priority filters returned the task titled
\* "Tea" whose description is "Get Milk"
C8_Witness ==
    /\ resp.ok /\ resp.op = "getTodos"
    /\ resp.params.search = Str(sMilk)
    /\ resp.params.completed = "true"
    /\ resp.params.priority.def /\ resp.params.priority.s # <<>>
    /\ \E i \in 1..Len(resp.data) :
          /\ resp.data[i].title = sTea
          /\ resp.data[i].description = Str(sGetMilk)

(***************************************************************************)
(* The ordering specification: getTodos, called directly and behind GET /, *)
(* with every sort field of the allow-list, a column outside it and a name *)
(* that is no column, in both directions and without one.                  *)
(***************************************************************************)
SortParams ==
    {[NoParams EXCEPT !.sortBy = f, !.sortOrder = o] :
       f \in TODO_SORT_FIELDS \cup {"", "completed", "name"},
       o \in SORT_ORDERS \cup {""}}

NextSort ==
    \/ Idle /\ \E u \in UserIds, p \in SortParams : GetTodos(u, p)
    \/ Idle /\ \E u \in UserIds, p \in SortParams : GetTodosRoute(u, p)
    \/ Ack

SpecSort == InitQuery /\ [][NextSort]_vars

(***************************************************************************)
(* Properties of the ordering specification.                               *)
(***************************************************************************)
\* the answer is in the default order: incomplete first, then newest first
InDefaultOrder(data) ==
    \A i, j \in 1..Len(data) :
       i < j => /\ data[i].completed => data[j].completed
                /\ data[i].completed = data[j].completed
                      => data[i].createdAt >= data[j].createdAt

\* the answer is ordered by the field in the direction, and rows equal on the
\* field are newest first
InFieldOrder(data, field, dir) ==
    \A i, j \in 1..Len(data) :
       i < j => LET lt == colLess(field, data[i], data[j])
                    gt == colLess(field, data[j], data[i])
                IN /\ IF dir = "asc" THEN ~gt ELSE ~lt
                   /\ (~lt /\ ~gt) => data[i].createdAt >= data[j].createdAt

\* C21: a getTodos answer is ordered by an allow-listed sortBy in the given
\* sortOrder with rows equal on that field newest first; when sortBy or
\* sortOrder is missing it is in the default order.
C21_SortedTiesNewestFirst ==
    (resp.ok /\ resp.op \in {"getTodos", "GET /"}) =>
       IF resp.params.sortBy \in TODO_SORT_FIELDS /\ resp.params.sortOrder \in SORT_ORDERS
       THEN InFieldOrder(resp.data, resp.params.sortBy, resp.params.sortOrder)
       ELSE (resp.params.sortBy = "" \/ resp.params.sortOrder = "")
               => InDefaultOrder(resp.data)

\* the answer is ordered by the field in the direction, and rows equal on the
\* field are in the default order
InFieldThenDefaultOrder(data, field, dir) ==
    \A i, j \in 1..Len(data) :
       i < j => LET lt == colLess(field, data[i], data[j])
                    gt == colLess(field, data[j], data[i])
                IN /\ IF dir = "asc" THEN ~gt ELSE ~lt
                   /\ (~lt /\ ~gt) => InDefaultOrder(<<data[i], data[j]>>)

\* C21 (amended): a getTodos answer is ordered by an allow-listed sortBy in
\* the given sortOrder with rows equal on that field in the default order,
\* incomplete before completed and then newest first; when sortBy or
\* sortOrder is missing it is in the default order.
C21_SortedTiesDefaultOrder ==
    (resp.ok /\ resp.op \in {"getTodos", "GET /"}) =>
       IF resp.params.sortBy \in TODO_SORT_FIELDS /\ resp.params.sortOrder \in SORT_ORDERS
       THEN InFieldThenDefaultOrder(resp.data, resp.params.sortBy, resp.params.sortOrder)
       ELSE (resp.params.sortBy = "" \/ resp.params.sortOrder = "")
               => InDefaultOrder(resp.data)

\* a sorted answer holds an incomplete row before a newer completed row that
\* is equal to it on the sort field
C21_Witness ==
    /\ resp.ok /\ resp.op = "getTodos"
    /\ resp.params.sortBy \in TODO_SORT_FIELDS /\ resp.params.sortOrder \in SORT_ORDERS
    /\ \E i, j \in 1..Len(resp.data) :
          /\ i < j
          /\ ~colLess(resp.params.sortBy, resp.data[i], resp.data[j])
          /\ ~colLess(resp.params.sortBy, resp.data[j], resp.data[i])
          /\ ~resp.data[i].completed /\ resp.data[j].completed
          /\ resp.data[i].createdAt < resp.data[j].createdAt

\* C22: a getTodos request whose sortBy is outside the allow-list is answered
\* with the rows in the default order.
C22_UnlistedSortIgnored ==
    (resp.op \in {"getTodos", "GET /"} /\ resp.params.sortBy # ""
       /\ resp.params.sortBy \notin TODO_SORT_FIELDS)
      => resp.ok /\ InDefaultOrder(resp.data)

(***************************************************************************)
(* The authentication specification: register, login, the token helpers,   *)
(* AuthService.verifyToken behind authenticateToken, user maintenance and  *)
(* the passing of days.                                                    *)
(***************************************************************************)
Emails == {"a@x.io", "b@x.io"}
Passwords == {"pw1", "pw2"}
UserIdSeq == <<"u1", "u2">>

\* ids the storage has handed out: gen_random_uuid() never repeats one
UsedUserIds == DOMAIN users \cup {e.userId : e \in tokens}

\* the id the next insert into users gets
FreshUserId ==
    UserIdSeq[CHOOSE i \in 1..Len(UserIdSeq) :
                /\ UserIdSeq[i] \notin UsedUserIds
                /\ \A j \in 1..(i - 1) : UserIdSeq[j] \in UsedUserIds]

\* tokens records each issued token with the user it was issued for
IssuedFor(token, user, at) ==
    [token |-> token, userId |-> user.id, email |-> user.email, at |-> at]

CanIssue(entry) == entry \in tokens \/ Cardinality(tokens) < MaxTokens

InitAuth ==
    /\ users = <<>>
    /\ todos = <<>>
    /\ createdBy = <<>>
    /\ now = 0
    /\ inflight = EmptyBag
    /\ resp = NoResp
    /\ tokens = {}

\* a createUser that reports a taken email as a validation failure
createUserErrorAsValidation(store, userData) ==
    IF findUserByEmail(store, userData.email) # {}
    THEN ValidationError("User with this email already exists", <<>>)
    ELSE NoError

\* the error UserService.createUser throws before it inserts, NoError when it
\* goes on to insert
createUserError(store, userData) ==
    IF findUserByEmail(store, userData.email) # {}
    THEN ConflictError("User with this email already exists")
    ELSE NoError

\* POST /register: AuthService.register over UserService.createUser
\* (the lookup by email and the insert taken as one step)
Register(userData) ==
    /\ Idle
    /\ IF createUserError(users, userData) # NoError
       THEN /\ resp' = [failure("register", "", 0, createUserError(users, userData))
                         EXCEPT !.body = userData]
            /\ UNCHANGED <<users, tokens>>
       ELSE /\ UserIds \ UsedUserIds # {}
            /\ LET user == [id |-> FreshUserId, email |-> userData.email,
                            password |-> bcryptHash[userData.password], name |-> ""]
                   token == generateToken([userId |-> user.id, email |-> user.email], now)
               IN /\ CanIssue(IssuedFor(token, user, now))
                  /\ users' = (user.id :> user) @@ users
                  /\ tokens' = tokens \cup {IssuedFor(token, user, now)}
                  /\ resp' = [success("register", user.id, 0, 201, <<>>)
                                EXCEPT !.token = token, !.user = toAuthUser(user),
                                       !.body = userData]
    /\ UNCHANGED <<todos, createdBy, now, inflight>>

\* a login that tells an unknown email from a wrong password
loginErrorLeaky(store, loginData) ==
    IF findUserByEmail(store, loginData.email) = {}
    THEN NotFoundError("User")
    ELSE LET user == store[CHOOSE id \in findUserByEmail(store, loginData.email) : TRUE]
         IN IF ~validatePassword(loginData.password, user.password)
            THEN AuthenticationError("Invalid credentials")
            ELSE NoError

\* the error AuthService.login throws for the credentials, NoError when it
\* goes on to issue a token
loginError(store, loginData) ==
    IF findUserByEmail(store, loginData.email) = {}
    THEN AuthenticationError("Invalid credentials")
    ELSE LET user == store[CHOOSE id \in findUserByEmail(store, loginData.email) : TRUE]
         IN IF ~validatePassword(loginData.password, user.password)
            THEN AuthenticationError("Invalid credentials")
            ELSE NoError

\* POST /login: AuthService.login
Login(loginData) ==
    /\ Idle
    /\ IF loginError(users, loginData) # NoError
       THEN /\ resp' = [failure("login", "", 0, loginError(users, loginData))
                         EXCEPT !.body = loginData]
            /\ UNCHANGED tokens
       ELSE LET user == users[CHOOSE id \in findUserByEmail(users, loginData.email) : TRUE]
                token == generateToken([userId |-> user.id, email |-> user.email], now)
            IN /\ CanIssue(IssuedFor(token, user, now))
               /\ tokens' = tokens \cup {IssuedFor(token, user, now)}
               /\ resp' = [success("login", user.id, 0, 200, <<>>)
                             EXCEPT !.token = token, !.user = toAuthUser(user),
                                    !.body = loginData]
    /\ UNCHANGED <<users, todos, createdBy, now, inflight>>

\* a call of the verifyToken helper, its error classified by errorHandler
VerifyToken(token) ==
    /\ Idle
    /\ LET decoded == verifyToken(token, now) IN
         resp' = IF decoded.ok
                 THEN [success("verifyToken", "", 0, 200, <<>>)
                         EXCEPT !.token = token,
                                !.user = [id |-> decoded.payload.userId,
                                          email |-> decoded.payload.email, name |-> ""]]
                 ELSE [failure("verifyToken", "", 0, decoded.error) EXCEPT !.token = token]
    /\ UNCHANGED <<users, todos, createdBy, now, inflight, tokens>>

\* the authenticateToken middleware on a request with this Authorization
\* header: resp.user is req.user, resp.ok is next() called without an error
AuthenticateToken(authHeader) ==
    /\ Idle
    /\ resp' =
         IF ~headerHasToken(authHeader)
         THEN failure("authenticateToken", "", 0, AuthenticationError("Access token required"))
         ELSE LET v == AuthService_verifyToken(users, authHeader.token, now) IN
                IF v.ok
                THEN [success("authenticateToken", v.user.id, 0, 200, <<>>)
                        EXCEPT !.token = authHeader.token, !.user = v.user]
                ELSE [failure("authenticateToken", "", 0, v.error)
                        EXCEPT !.token = authHeader.token]
    /\ UNCHANGED <<users, todos, createdBy, now, inflight, tokens>>

\* UserService.updateUser with a new email
UpdateUserEmail(id, email) ==
    /\ Idle
    /\ IF ~findUserById(users, id)
       THEN /\ resp' = failure("updateUser", id, 0, NotFoundError("User"))
            /\ UNCHANGED users
       ELSE IF email # users[id].email /\ findUserByEmail(users, email) # {}
       THEN /\ resp' = failure("updateUser", id, 0, ConflictError("Email already in use"))
            /\ UNCHANGED users
       ELSE /\ users' = [users EXCEPT ![id].email = email]
            /\ resp' = [success("updateUser", id, 0, 200, <<>>)
                          EXCEPT !.user = toAuthUser([users[id] EXCEPT !.email = email])]
    /\ UNCHANGED <<todos, createdBy, now, inflight, tokens>>

\* UserService.deleteUser; the user's tasks go with the row (ON DELETE CASCADE)
DeleteUser(id) ==
    /\ Idle
    /\ IF ~findUserById(users, id)
       THEN /\ resp' = failure("deleteUser", id, 0, NotFoundError("User"))
            /\ UNCHANGED <<users, todos>>
       ELSE /\ users' = [u \in DOMAIN users \ {id} |-> users[u]]
            /\ todos' = [t \in {x \in DOMAIN todos : todos[x].userId # id} |-> todos[t]]
            /\ resp' = success("deleteUser", id, 0, 200, <<>>)
    /\ UNCHANGED <<createdBy, now, inflight, tokens>>

\* a day passes
Tick ==
    /\ Idle
    /\ now < MaxTime
    /\ now' = now + 1
    /\ UNCHANGED <<users, todos, createdBy, inflight, resp, tokens>>

\* a token for u1 signed with another key
ForgedToken ==
    [generateToken([userId |-> "u1", email |-> "a@x.io"], 0) EXCEPT !.signature = "forged"]

PresentedTokens == {e.token : e \in tokens} \cup {ForgedToken}

Headers == {NoHeader, SchemeOnly} \cup {Bearer(t) : t \in PresentedTokens}

NextAuth ==
    \/ \E e \in Emails, p \in Passwords : Register([email |-> e, password |-> p])
    \/ \E e \in Emails, p \in Passwords : Login([email |-> e, password |-> p])
    \/ \E t \in PresentedTokens : VerifyToken(t)
    \/ \E h \in Headers : AuthenticateToken(h)
    \/ \E id \in UserIds, e \in Emails : UpdateUserEmail(id, e)
    \/ \E id \in UserIds : DeleteUser(id)
    \/ Tick
    \/ Ack

SpecAuth == InitAuth /\ [][NextAuth]_vars

(***************************************************************************)
(* Properties of the authentication specification.                         *)
(***************************************************************************)
\* the default token lifetime in days
TokenLifetimeDays == 7

\* C9: a token issued by register or login is recorded for the user of the
\* response; while it is within its lifetime the verifyToken helper yields
\* the id and email it was issued for, and authenticateToken, while that user
\* exists, attaches the user's id and stored email.
C9_TokenRoundTrip ==
    /\ (resp.ok /\ resp.op \in {"register", "login"}) =>
          \E e \in tokens :
             /\ e.token = resp.token /\ e.at = now
             /\ e.userId = resp.user.id /\ e.email = resp.user.email
             /\ resp.user.id \in DOMAIN users
             /\ users[resp.user.id].email = resp.user.email
    /\ \A e \in tokens :
          (now < e.at + TokenLifetimeDays /\ resp.token = e.token) =>
             /\ resp.op = "verifyToken" =>
                   (resp.ok /\ resp.user.id = e.userId /\ resp.user.email = e.email)
             /\ (resp.op = "authenticateToken" /\ e.userId \in DOMAIN users) =>
                   /\ resp.ok
                   /\ resp.user.id = e.userId
                   /\ resp.user.email = users[e.userId].email

\* a token issued on an earlier day was accepted by authenticateToken for the
\* user it was issued for
C9_Witness ==
    /\ resp.ok /\ resp.op = "authenticateToken"
    /\ \E e \in tokens :
          /\ e.token = resp.token
          /\ now > e.at
          /\ resp.user.id = e.userId /\ resp.user.email = e.email

\* C10: once TokenLifetimeDays have passed since a token was issued, the
\* verifyToken helper fails on it with TokenExpiredError and authenticateToken
\* answers 401 with no identity attached; before that the helper succeeds and
\* authenticateToken accepts the token of an existing user.
C10_TokenExpiry ==
    \A e \in tokens :
       resp.token = e.token =>
          /\ resp.op = "verifyToken" =>
                IF now >= e.at + TokenLifetimeDays
                THEN ~resp.ok /\ resp.status = 401 /\ resp.code = "TOKEN_EXPIRED"
                ELSE resp.ok
          /\ resp.op = "authenticateToken" =>
                IF now >= e.at + TokenLifetimeDays
                THEN /\ ~resp.ok /\ resp.status = 401
                     /\ resp.code = "AUTHENTICATION_ERROR"
                     /\ resp.user = NoUser
                ELSE e.userId \in DOMAIN users => (resp.ok /\ resp.user.id = e.userId)

\* authenticateToken refused the expired token of a user who still exists
C10_Witness ==
    /\ resp.op = "authenticateToken" /\ ~resp.ok /\ resp.status = 401
    /\ resp.user = NoUser
    /\ \E e \in tokens :
          /\ e.token = resp.token
          /\ now >= e.at + TokenLifetimeDays
          /\ e.userId \in DOMAIN users

\* C29: authenticateToken refuses, with AuthenticationError (401) and no
\* identity attached, every token issued to a user who is no longer stored,
\* expired or not; the identity it attaches is the id, email and name stored
\* at the time for a user who exists.
C29_TokenBoundToStore ==
    resp.op = "authenticateToken" =>
       /\ \A e \in tokens :
            (resp.token = e.token /\ e.userId \notin DOMAIN users) =>
               /\ ~resp.ok
               /\ resp.thrown.name = "AuthenticationError"
               /\ resp.status = 401
               /\ resp.user = NoUser
       /\ resp.ok =>
            /\ resp.user.id \in DOMAIN users
            /\ resp.user = [id |-> users[resp.user.id].id,
                            email |-> users[resp.user.id].email,
                            name |-> users[resp.user.id].name]

\* authenticateToken refused the unexpired token of a deleted user
C29_Witness ==
    /\ resp.op = "authenticateToken" /\ ~resp.ok
    /\ resp.thrown.name = "AuthenticationError"
    /\ \E e \in tokens :
          /\ e.token = resp.token
          /\ e.userId \notin DOMAIN users
          /\ now < e.at + TokenLifetimeDays

(***************************************************************************)
(* SpecWrite: createTodo and updateTodo called one after the other on the  *)
(* sample stores, each call finished before the next starts, over payloads *)
(* that supply every combination of the optional fields.                   *)
(***************************************************************************)

MaxWrites == 1

sDay8 == <<"D", "8">>

\* the sample stores of at most MaxTodos rows
WriteStores == {st \in SampleStores : Cardinality(DOMAIN st.rows) <= MaxTodos}

\* CreateTodoData as validateBody(createTodoSchema) passes it on
CreatePayloads ==
    {[title |-> sBuyMilk, description |-> d, priority |-> p, dueDate |-> due] :
       d \in {NoStr, Str(<<>>), Str(sGetMilk)},
       p \in {NoStr, Str(HIGH)},
       due \in {NoStr, Str(<<>>), Str(sDay1)}}

\* UpdateTodoData as validateBody(updateTodoSchema) passes it on
UpdatePayloads ==
    {[title |-> t, description |-> d, completed |-> c, priority |-> p, dueDate |-> due] :
       t \in {NoStr, Str(sX)},
       d \in {NoStr, Str(<<>>)},
       c \in {NoBool, Bool(TRUE)},
       p \in {NoStr, Str(LOW)},
       due \in {NoStr, Str(<<>>), Str(sDay8)}}

InitWrite ==
    /\ users = Registered
    /\ \E st \in WriteStores :
          /\ todos = st.rows
          /\ createdBy = st.owners
          /\ now = st.at
    /\ inflight = EmptyBag
    /\ resp = NoResp
    /\ tokens = {}

\* one write a day, MaxWrites of them
WritesDone == now - (CHOOSE st \in SampleStores : TRUE).at

\* createTodo: one storage call
CreateTodoOnStore(userId, todoData) ==
    /\ Idle
    /\ WritesDone < MaxWrites
    /\ LET id == Len(createdBy) + 1 IN
         IF userId \in DOMAIN users
         THEN /\ todos' = (id :> createTodoRow(id, userId, todoData, now)) @@ todos
              /\ createdBy' = Append(createdBy, userId)
              /\ resp' = [success("createTodo", userId, id, 201,
                                  <<toDto(createTodoRow(id, userId, todoData, now))>>)
                            EXCEPT !.payload = todoData]
         ELSE /\ UNCHANGED <<todos, createdBy>>
              /\ resp' = [failure("createTodo", userId, 0, RecordNotFound)
                            EXCEPT !.payload = todoData]
    /\ now' = now + 1
    /\ UNCHANGED <<users, inflight, tokens>>

\* updateTodo with its ownership check and its write answered before any
\* other request runs
UpdateTodo(userId, todoId, updateData) ==
    /\ Idle
    /\ WritesDone < MaxWrites
    /\ IF getTodoByIdFound(todos, userId, todoId)
       THEN /\ todos' = [todos EXCEPT ![todoId] = updateTodoRow(@, updateData, now)]
            /\ resp' = [success("updateTodo", userId, todoId, 200,
                                <<toDto(updateTodoRow(todos[todoId], updateData, now))>>)
                          EXCEPT !.payload = updateData]
       ELSE /\ UNCHANGED todos
            /\ resp' = [failure("updateTodo", userId, todoId,
                                getTodoByIdError(todos, userId, todoId))
                          EXCEPT !.payload = updateData]
    /\ now' = now + 1
    /\ UNCHANGED <<users, createdBy, inflight, tokens>>

NextWrite ==
    \/ Idle /\ \E u \in UserIds, d \in CreatePayloads : CreateTodoOnStore(u, d)
    \/ Idle /\ \E u \in UserIds, id \in 1..Len(SampleRows), d \in UpdatePayloads :
                 UpdateTodo(u, id, d)
    \/ Ack

SpecWrite == InitWrite /\ [][NextWrite]_vars

(***************************************************************************)
(* Properties of SpecWrite                                                 *)
(***************************************************************************)

\* C13: a createTodo that succeeds adds one task under a new id: its owner is
\* the caller, completed is false, its priority is the one supplied or MEDIUM
\* when none is supplied, it is the task returned, and every task stored
\* before is stored unchanged after
C13_CreateDefaultsAndFrame ==
    [][(resp'.op = "createTodo" /\ resp.op = "none") =>
         LET id == resp'.todoId
             p == resp'.payload
         IN /\ resp'.ok
            /\ id \notin DOMAIN todos
            /\ DOMAIN todos' = DOMAIN todos \cup {id}
            /\ todos'[id].userId = resp'.userId
            /\ todos'[id].completed = FALSE
            /\ todos'[id].title = p.title
            /\ todos'[id].priority = IF p.priority = NoStr THEN MEDIUM ELSE p.priority.s
            /\ resp'.data = <<toDto(todos'[id])>>
            /\ \A other \in DOMAIN todos : todos'[other] = todos[other]]_vars

\* a task created without a priority, next to a task stored before
C13_Witness ==
    /\ resp.op = "createTodo"
    /\ resp.ok
    /\ resp.payload.priority = NoStr
    /\ resp.data[1].priority = MEDIUM
    /\ ~resp.data[1].completed
    /\ Cardinality(DOMAIN todos) > 1

\* the value updateTodo is to leave in a field: the supplied one, else the old
Supplied(field, old) == IF field.def THEN field ELSE old

\* C18: an updateTodo that succeeds sets each of title, description, completed,
\* priority and dueDate that the payload supplies to the supplied value (an
\* empty dueDate to none), leaves each one it does not supply as it was, keeps
\* the task's id, owner and creation time, and changes no other task
C18_UpdateFrame ==
    [][(resp'.op = "updateTodo" /\ resp.op = "none" /\ resp'.ok) =>
         LET id == resp'.todoId
             p == resp'.payload
             old == todos[id]
             new == todos'[id]
         IN /\ DOMAIN todos' = DOMAIN todos
            /\ new.title = Supplied(p.title, Str(old.title)).s
            /\ new.description = Supplied(p.description, old.description)
            /\ new.completed = Supplied(p.completed, Bool(old.completed)).b
            /\ new.priority = Supplied(p.priority, Str(old.priority)).s
            /\ new.dueDate = IF ~p.dueDate.def THEN old.dueDate
                              ELSE IF p.dueDate.s = <<>> THEN NoDate
                              ELSE DateAt(DigitVal[p.dueDate.s[2]])
            /\ new.id = old.id
            /\ new.userId = old.userId
            /\ new.userId = resp'.userId
            /\ new.createdAt = old.createdAt
            /\ \A other \in DOMAIN todos \ {id} : todos'[other] = todos[other]]_vars

\* an update that supplied only an empty due date cleared the due date of a
\* task and kept its description
C18_Witness ==
    /\ resp.op = "updateTodo"
    /\ resp.ok
    /\ resp.payload = [NoUpdate EXCEPT !.dueDate = Str(<<>>)]
    /\ todos[resp.todoId].dueDate = NoDate
    /\ todos[resp.todoId].description.def

(***************************************************************************)
(* SpecRace: toggleTodoCompletion calls on the sample stores, up to        *)
(* MaxRacers of them between their read and their write at once.           *)
(***************************************************************************)

MaxRacers == 2

InitRace ==
    /\ users = Registered
    /\ \E st \in WriteStores :
          /\ todos = st.rows
          /\ createdBy = st.owners
          /\ now = st.at
    /\ inflight = EmptyBag
    /\ resp = NoResp
    /\ tokens = {}

\* the getTodoById that opens toggleTodoCompletion
ToggleTodoReadAmong(userId, todoId) ==
    CheckOwnedAmong(MaxRacers, "toggleTodoCompletion", userId, todoId, NoUpdate)

NextRace ==
    \/ \E u \in UserIds, id \in 1..Len(SampleRows) : ToggleTodoReadAmong(u, id)
    \/ \E r \in BagToSet(inflight) : ToggleTodoWrite(r)
    \/ \E u \in UserIds, id \in 1..Len(SampleRows) : GetTodoById(u, id)
    \/ Ack

SpecRace == InitRace /\ [][NextRace]_vars

(***************************************************************************)
(* Properties of SpecRace                                                  *)
(***************************************************************************)

\* C14: the write of a toggle stores and returns the negation of the completed
\* value that toggle read, whatever is stored when the write happens; so of
\* two toggles that read the same value the second write repeats the first
C14_ToggleWritesNegatedRead ==
    [][\A r \in BagToSet(inflight) :
         (/\ r.op = "toggleTodoCompletion"
          /\ inflight' = inflight (-) SetToBag({r})
          /\ resp'.op = "toggleTodoCompletion"
          /\ resp'.ok) =>
            /\ todos'[r.todoId].completed = ~r.read
            /\ resp'.data[1].completed = ~r.read
            /\ resp'.prior = Bool(todos[r.todoId].completed)]_vars

\* two toggles of one task have both answered with success and the second
\* wrote the value the first had stored: the task is flipped once
C14_Witness ==
    /\ resp.op = "toggleTodoCompletion"
    /\ resp.ok
    /\ resp.prior = Bool(resp.data[1].completed)
    /\ todos[resp.todoId].completed = resp.data[1].completed
    /\ inflight = EmptyBag

(***************************************************************************)
(* SpecRoute: requests to the task routes through the middleware chain.    *)
(* authenticateToken looks the user up, the validator of the route parses  *)
(* the payload, the handler calls the service; users are deleted between a *)
(* request's authentication and the storage call of its service operation. *)
(* One request at a time is between the two, and the storage calls of one  *)
(* service operation are not interleaved here.                             *)
(***************************************************************************)

\* the task routes: method and path
Routes ==
    {"GET /", "GET /:id", "POST /", "PUT /:id", "DELETE /:id", "PATCH /:id/toggle",
     "GET /priority/:priority", "GET /status/overdue", "GET /search/:term"}

\* String.prototype.trim on the characters used here
RECURSIVE trimStart(_)
trimStart(s) == IF s # <<>> /\ Head(s) = " " THEN trimStart(Tail(s)) ELSE s

RECURSIVE trimEnd(_)
trimEnd(s) ==
    IF s # <<>> /\ s[Len(s)] = " " THEN trimEnd(SubSeq(s, 1, Len(s) - 1)) ELSE s

trim(s) == trimEnd(trimStart(s))

\* a JSON value that is no boolean where completed is read
NotBoolean == [def |-> TRUE, b |-> FALSE, s |-> <<"y", "e", "s">>]

isBoolean(v) == "s" \notin DOMAIN v

\* z.string().datetime() accepts the string
isDatetime(s) == Len(s) = 2 /\ s[1] = "D" /\ s[2] \in DOMAIN DigitVal

\* an optional string field of a schema that is trimmed when present
trimmed(field) == IF field.def THEN Str(trim(field.s)) ELSE NoStr

\* the keys of a body createTodoSchema rejects, in schema order
createTodoSchemaIssues(body) ==
    (IF body.title.def /\ Len(body.title.s) >= 1 /\ Len(body.title.s) <= 200
     THEN <<>> ELSE <<"title">>)
    \o (IF ~body.description.def \/ Len(body.description.s) <= 1000
        THEN <<>> ELSE <<"description">>)
    \o (IF ~body.priority.def \/ isValidPriority(body.priority.s)
        THEN <<>> ELSE <<"priority">>)
    \o (IF ~body.dueDate.def \/ body.dueDate.s = <<>> \/ isDatetime(body.dueDate.s)
        THEN <<>> ELSE <<"dueDate">>)

\* createTodoSchema.parse of a body it accepts: keys outside the schema are
\* dropped, title and description trimmed
createTodoSchemaParse(body) ==
    [title |-> trim(body.title.s), description |-> trimmed(body.description),
     priority |-> body.priority, dueDate |-> body.dueDate]

\* a schema that wants at least one field in the body
updateTodoSchemaIssuesAtLeastOne(body) ==
    IF ~body.title.def /\ ~body.description.def /\ ~body.completed.def
       /\ ~body.priority.def /\ ~body.dueDate.def
    THEN <<"body">>
    ELSE <<>>

\* the keys of a body updateTodoSchema rejects, in schema order
updateTodoSchemaIssues(body) ==
    (IF ~body.title.def \/ (Len(body.title.s) >= 1 /\ Len(body.title.s) <= 200)
     THEN <<>> ELSE <<"title">>)
    \o (IF ~body.description.def \/ Len(body.description.s) <= 1000
        THEN <<>> ELSE <<"description">>)
    \o (IF ~body.completed.def \/ isBoolean(body.completed)
        THEN <<>> ELSE <<"completed">>)
    \o (IF ~body.priority.def \/ isValidPriority(body.priority.s)
        THEN <<>> ELSE <<"priority">>)
    \o (IF ~body.dueDate.def \/ body.dueDate.s = <<>> \/ isDatetime(body.dueDate.s)
        THEN <<>> ELSE <<"dueDate">>)

\* updateTodoSchema.parse of a body it accepts
updateTodoSchemaParse(body) ==
    [title |-> trimmed(body.title), description |-> trimmed(body.description),
     completed |-> body.completed, priority |-> body.priority, dueDate |-> body.dueDate]

\* todoQuerySchema.parse of a query it accepts
todoQuerySchemaParse(params) == [params EXCEPT !.search = trimmed(@)]

\* a validator that calls next() whatever the schema says
validateBodyLenient(issues, parsed) == [ok |-> TRUE, value |-> parsed, error |-> NoError]

\* validateBody(schema): issues is what schema.parse throws, parsed what it
\* returns; ok is next() called without an error
validateBody(issues, parsed) ==
    IF issues = <<>>
    THEN [ok |-> TRUE, value |-> parsed, error |-> NoError]
    ELSE [ok |-> FALSE, value |-> parsed,
          error |-> ValidationError("Validation failed", issues)]

validateQuery(issues, parsed) ==
    IF issues = <<>>
    THEN [ok |-> TRUE, value |-> parsed, error |-> NoError]
    ELSE [ok |-> FALSE, value |-> parsed,
          error |-> ValidationError("Query validation failed", issues)]

\* an authentication that lets a request without a token through
authenticateTokenOptional(store, authHeader, at) ==
    IF ~headerHasToken(authHeader)
    THEN [ok |-> TRUE, user |-> NoUser, error |-> NoError]
    ELSE AuthService_verifyToken(store, authHeader.token, at)

\* the authenticateToken middleware: user is req.user, ok is next() called
\* without an error
authenticateToken(store, authHeader, at) ==
    IF ~headerHasToken(authHeader)
    THEN [ok |-> FALSE, user |-> NoUser,
          error |-> AuthenticationError("Access token required")]
    ELSE AuthService_verifyToken(store, authHeader.token, at)

\* the validator a route declares, "" when it declares none
validatorOf(route) ==
    CASE route = "GET /" -> "validateQuery"
      [] route \in {"POST /", "PUT /:id"} -> "validateBody"
      [] OTHER -> ""

\* the validator of the route applied to the request
validated(route, body, params) ==
    CASE route = "GET /" ->
           validateQuery(todoQuerySchemaIssues(params), todoQuerySchemaParse(params))
      [] route = "POST /" ->
           validateBody(createTodoSchemaIssues(body), createTodoSchemaParse(body))
      [] route = "PUT /:id" ->
           validateBody(updateTodoSchemaIssues(body), updateTodoSchemaParse(body))
      [] OTHER -> [ok |-> TRUE, value |-> body, error |-> NoError]

\* the middleware run for a request up to and including its validator
ranUpToValidator(route) ==
    IF validatorOf(route) = "" THEN <<"authenticateToken">>
    ELSE <<"authenticateToken", validatorOf(route)>>

\* the foreign key of a task row refers to a user row
userConnectableUnchecked(store, userId) == TRUE

userConnectable(store, userId) == userId \in DOMAIN store

\* the error of an insert whose user row is missing
ForeignKeyFailed == ForeignError("PrismaClientKnownRequestError", "P2003")

sSpacedTea == <<" ", "T", "e", "a", " ">>
sUrgent == <<"u", "r", "g", "e", "n", "t">>

\* request bodies as express.json() hands them to the validator
RawBodies ==
    {[NoUpdate EXCEPT !.title = Str(sSpacedTea)],
     [NoUpdate EXCEPT !.completed = Bool(TRUE)],
     [NoUpdate EXCEPT !.title = Str(sTea), !.priority = Str(sUrgent),
                      !.dueDate = Str(sX)],
     [NoUpdate EXCEPT !.completed = NotBoolean]}

\* query strings as Express hands them to the validator
RawQueries ==
    {NoParams,
     [NoParams EXCEPT !.limit = Str(<<"1">>)],
     [NoParams EXCEPT !.limit = Str(<<"0">>), !.sortBy = "name"]}

\* the requests sent: a request to a route with no :id has todoId 0, one to a
\* route with no body has an empty body, one to a route other than GET / has
\* an empty query
RouteRequests ==
    {[route |-> "GET /", todoId |-> 0, body |-> NoUpdate, params |-> p, arg |-> <<>>] :
        p \in RawQueries}
    \cup {[route |-> "POST /", todoId |-> 0, body |-> b, params |-> NoParams, arg |-> <<>>] :
            b \in RawBodies}
    \cup {[route |-> "PUT /:id", todoId |-> id, body |-> b, params |-> NoParams,
           arg |-> <<>>] : id \in TodoIds, b \in RawBodies}
    \cup {[route |-> rt, todoId |-> id, body |-> NoUpdate, params |-> NoParams,
           arg |-> <<>>] :
            rt \in {"GET /:id", "DELETE /:id", "PATCH /:id/toggle"}, id \in TodoIds}
    \cup {[route |-> "GET /priority/:priority", todoId |-> 0, body |-> NoUpdate,
           params |-> NoParams, arg |-> <<"h", "i", "g", "h">>],
          [route |-> "GET /status/overdue", todoId |-> 0, body |-> NoUpdate,
           params |-> NoParams, arg |-> <<>>],
          [route |-> "GET /search/:term", todoId |-> 0, body |-> NoUpdate,
           params |-> NoParams, arg |-> sMilk]}

\* both users hold a token issued on the first day
InitRoute ==
    /\ users = Registered
    /\ todos = <<>>
    /\ createdBy = <<>>
    /\ now = 2
    /\ inflight = EmptyBag
    /\ resp = NoResp
    /\ tokens = {IssuedFor(generateToken([userId |-> id, email |-> Registered[id].email], 1),
                           Registered[id], 1) : id \in UserIds}

\* a request arrives: authenticateToken, then the validator of the route, then
\* the handler up to the storage call of its service operation
Receive(req, authHeader) ==
    /\ Idle
    /\ LET a == authenticateToken(users, authHeader, now)
           v == validated(req.route, req.body, req.params)
       IN IF ~a.ok
          THEN /\ resp' = [failure(req.route, "", req.todoId, a.error)
                            EXCEPT !.token = authHeader.token, !.payload = req.body,
                                   !.params = req.params,
                                   !.stages = <<"authenticateToken">>]
               /\ UNCHANGED inflight
          ELSE IF ~v.ok
          THEN /\ resp' = [failure(req.route, a.user.id, req.todoId, v.error)
                            EXCEPT !.token = authHeader.token, !.user = a.user,
                                   !.payload = req.body, !.params = req.params,
                                   !.stages = ranUpToValidator(req.route)]
               /\ UNCHANGED inflight
          ELSE /\ inflight = EmptyBag
               /\ req.route = "POST /" => Len(createdBy) < MaxTodos
               /\ Suspend([NoReq EXCEPT
                             !.op = req.route, !.userId = a.user.id,
                             !.todoId = req.todoId, !.token = authHeader.token,
                             !.raw = req.body, !.arg = req.arg,
                             !.data = IF req.route = "GET /" THEN NoUpdate ELSE v.value,
                             !.params = IF req.route = "GET /" THEN v.value ELSE NoParams,
                             !.stages = Append(ranUpToValidator(req.route), "handler")])
               /\ UNCHANGED resp
    /\ UNCHANGED <<users, todos, createdBy, now, tokens>>

\* the response of a handler whose service operation has answered
routed(response, r) ==
    [response EXCEPT !.op = r.op, !.userId = r.userId, !.token = r.token,
                     !.payload = r.data, !.params = r.params, !.arg = r.arg,
                     !.stages = Append(r.stages, "service")]

\* POST /: the insert of createTodo reaches storage
ServeCreate(r) ==
    /\ Idle
    /\ r \in BagToSet(inflight) /\ r.op = "POST /"
    /\ Resume(r)
    /\ LET id == Len(createdBy) + 1 IN
         IF userConnectable(users, r.userId)
         THEN /\ todos' = (id :> createTodoRow(id, r.userId, r.data, now)) @@ todos
              /\ createdBy' = Append(createdBy, r.userId)
              /\ resp' = routed(success(r.op, r.userId, id, 201,
                                        <<toDto(createTodoRow(id, r.userId, r.data, now))>>),
                                r)
         ELSE /\ UNCHANGED <<todos, createdBy>>
              /\ \E error \in {RecordNotFound, ForeignKeyFailed} :
                    resp' = routed(failure(r.op, r.userId, 0, error), r)
    /\ UNCHANGED <<users, now, tokens>>

\* PUT /:id, DELETE /:id, PATCH /:id/toggle: the service operation runs
ServeWrite(r) ==
    /\ Idle
    /\ r \in BagToSet(inflight)
    /\ r.op \in {"PUT /:id", "DELETE /:id", "PATCH /:id/toggle"}
    /\ Resume(r)
    /\ IF ~getTodoByIdFound(todos, r.userId, r.todoId)
       THEN /\ UNCHANGED todos
            /\ resp' = routed(failure(r.op, r.userId, r.todoId,
                                      getTodoByIdError(todos, r.userId, r.todoId)), r)
       ELSE LET old == todos[r.todoId]
                new == IF r.op = "PUT /:id" THEN updateTodoRow(old, r.data, now)
                       ELSE toggleTodoRow(old, old.completed, now)
            IN IF r.op = "DELETE /:id"
               THEN /\ todos' = deleteTodoRow(todos, r.todoId)
                    /\ resp' = routed(success(r.op, r.userId, r.todoId, 200, <<>>), r)
               ELSE /\ todos' = [todos EXCEPT ![r.todoId] = new]
                    /\ resp' = routed(success(r.op, r.userId, r.todoId, 200,
                                              <<toDto(new)>>), r)
    /\ UNCHANGED <<users, createdBy, now, tokens>>

\* the GET routes: the service operation runs
ServeRead(r) ==
    /\ Idle
    /\ r \in BagToSet(inflight)
    /\ r.op \in {"GET /", "GET /:id", "GET /priority/:priority", "GET /status/overdue",
                  "GET /search/:term"}
    /\ Resume(r)
    /\ CASE r.op = "GET /" ->
              LET q == getTodosQuery(r.userId, r.params) IN
                IF q.skip < 0
                THEN resp' = routed(failure(r.op, r.userId, 0, SkipRejected), r)
                ELSE \E items \in findMany(todos, q.where, q.orderBy, q.skip, q.limit) :
                        resp' = routed(paginated(r.userId, r.params, items, q,
                                                 count(todos, q.where)), r)
         [] r.op = "GET /:id" ->
              resp' = IF getTodoByIdFound(todos, r.userId, r.todoId)
                      THEN routed(success(r.op, r.userId, r.todoId, 200,
                                          <<toDto(todos[r.todoId])>>), r)
                      ELSE routed(failure(r.op, r.userId, r.todoId,
                                          getTodoByIdError(todos, r.userId, r.todoId)), r)
         [] r.op = "GET /priority/:priority" ->
              \E items \in findAll(todos,
                                    getTodosByPriorityWhere(r.userId, toUpperCase(r.arg)),
                                    CreatedDesc) :
                 resp' = routed(listed(r.op, r.userId, r.arg, items), r)
         [] r.op = "GET /status/overdue" ->
              \E items \in findAll(todos, getOverdueTodosWhere(r.userId, now), DueAsc) :
                 resp' = routed(listed(r.op, r.userId, r.arg, items), r)
         [] r.op = "GET /search/:term" ->
              \E items \in findAll(todos, searchTodosWhere(r.userId, r.arg), CreatedDesc) :
                 resp' = routed(listed(r.op, r.userId, r.arg, items), r)
    /\ UNCHANGED <<users, todos, createdBy, now, tokens>>

RouteHeaders == {NoHeader, SchemeOnly} \cup {Bearer(t) : t \in PresentedTokens}

NextRoute ==
    \/ Idle /\ \E req \in RouteRequests, h \in RouteHeaders : Receive(req, h)
    \/ \E r \in BagToSet(inflight) : ServeCreate(r)
    \/ \E r \in BagToSet(inflight) : ServeWrite(r)
    \/ \E r \in BagToSet(inflight) : ServeRead(r)
    \/ \E id \in UserIds : DeleteUser(id)
    \/ Ack

SpecRoute == InitRoute /\ [][NextRoute]_vars

(***************************************************************************)
(* Properties of SpecRoute                                                 *)
(***************************************************************************)

\* the place of a stage in the order the contract gives the chain
StageRank ==
    [authenticateToken |-> 1, validateBody |-> 2, validateQuery |-> 2, handler |-> 3,
     service |-> 4]

\* the stages start with authentication and follow the order of the chain
InChainOrder(stages) ==
    /\ stages # <<>>
    /\ stages[1] = "authenticateToken"
    /\ \A i \in 1..(Len(stages) - 1) : StageRank[stages[i]] < StageRank[stages[i + 1]]

Ran(stage, stages) == \E i \in 1..Len(stages) : stages[i] = stage

\* C15: a request to a task route that carries no bearer token is answered 401
\* 'Access token required' with no identity, after authenticateToken alone has
\* run, and changes neither the tasks nor the requests in progress; the
\* stages of a request run in the order authentication, validation, handler,
\* service; a service operation has run only under the identity of the user
\* the request's token was issued to, and every request past the chain
\* carries an identity
C15_AuthenticationFirst ==
    [][/\ (resp.op = "none" /\ resp'.op \in Routes) =>
            /\ resp'.token = NoToken =>
                  /\ ~resp'.ok
                  /\ resp'.status = 401
                  /\ resp'.thrown.name = "AuthenticationError"
                  /\ resp'.error = "Access token required"
                  /\ resp'.user = NoUser
                  /\ resp'.userId = ""
                  /\ resp'.stages = <<"authenticateToken">>
                  /\ UNCHANGED <<users, todos, createdBy, inflight>>
            /\ InChainOrder(resp'.stages)
            /\ Ran("service", resp'.stages) =>
                  /\ Ran("handler", resp'.stages)
                  /\ \E e \in tokens : e.token = resp'.token /\ e.userId = resp'.userId
       /\ \A r \in BagToSet(inflight') :
            /\ InChainOrder(r.stages)
            /\ \E e \in tokens : e.token = r.token /\ e.userId = r.userId]_vars

\* a create request with a body the schema accepts was refused for want of a
\* token while tasks are stored
C15_Witness ==
    /\ resp.op = "POST /"
    /\ resp.token = NoToken
    /\ resp.status = 401
    /\ resp.payload = [NoUpdate EXCEPT !.title = Str(sSpacedTea)]
    /\ todos # <<>>

\* s is t with spaces put before and after it
Padded(s, t) ==
    \E i \in 0..Len(s), j \in 0..Len(s) :
       /\ Len(s) = i + Len(t) + j
       /\ \A k \in 1..Len(s) :
             IF k <= i \/ k > i + Len(t) THEN s[k] = " " ELSE s[k] = t[k - i]

Spaceless(t) == t = <<>> \/ (t[1] # " " /\ t[Len(t)] # " ")

\* what the API accepts as the body of a create or an update and as the
\* query of a list
AcceptableBody(route, raw) ==
    /\ route = "POST /" => raw.title.def
    /\ raw.title.def => raw.title.s # <<>>
    /\ raw.priority.def => raw.priority.s \in {LOW, MEDIUM, HIGH}
    /\ raw.dueDate.def => raw.dueDate.s \in {<<>>, sDay1, sDay8}
    /\ (route = "PUT /:id" /\ raw.completed.def) => raw.completed \in {Bool(TRUE), Bool(FALSE)}

AcceptableQuery(params) ==
    /\ params.limit.def => params.limit.s \in {<<"1">>}
    /\ params.sortBy \in {"", "createdAt", "updatedAt", "title", "priority", "dueDate"}

\* C16: a request answered by its validator is answered 400 with a
\* ValidationError, 'Validation failed' for a body and 'Query validation
\* failed' for a query, that lists the rejected fields; neither handler nor
\* service has run for it and tasks, users and requests in progress are as
\* before; a request that is past its validator has a payload the API accepts
\* and the handler holds it parsed: title and description without the spaces
\* around them
C16_ValidationGate ==
    [][/\ (resp.op = "none" /\ resp'.op \in Routes
           /\ (Ran("validateBody", resp'.stages) \/ Ran("validateQuery", resp'.stages))
           /\ ~Ran("handler", resp'.stages)) =>
            /\ ~resp'.ok
            /\ resp'.status = 400
            /\ resp'.thrown.name = "ValidationError"
            /\ resp'.code = "VALIDATION_ERROR"
            /\ resp'.error = IF resp'.op = "GET /" THEN "Query validation failed"
                             ELSE "Validation failed"
            /\ resp'.details # <<>>
            /\ \A i \in 1..Len(resp'.details) :
                  resp'.details[i] \in DOMAIN NoUpdate \cup DOMAIN NoParams
            /\ ~Ran("service", resp'.stages)
            /\ (resp'.op = "GET /" \/ ~AcceptableBody(resp'.op, resp'.payload))
            /\ (resp'.op # "GET /" \/ ~AcceptableQuery(resp'.params))
            /\ UNCHANGED <<users, todos, createdBy, inflight>>
       /\ \A r \in BagToSet(inflight') :
            /\ r.op \in {"POST /", "PUT /:id"} =>
                  /\ AcceptableBody(r.op, r.raw)
                  /\ r.raw.description.def =>
                        /\ Padded(r.raw.description.s, r.data.description.s)
                        /\ Spaceless(r.data.description.s)
            /\ r.op = "POST /" =>
                  /\ Padded(r.raw.title.s, r.data.title)
                  /\ Spaceless(r.data.title)
            /\ (r.op = "PUT /:id" /\ r.raw.title.def) =>
                  /\ Padded(r.raw.title.s, r.data.title.s)
                  /\ Spaceless(r.data.title.s)
            /\ r.op = "GET /" => AcceptableQuery(r.params)]_vars

\* a create request with an unknown priority and a malformed due date was
\* refused with both fields listed while tasks are stored
C16_Witness ==
    /\ resp.op = "POST /"
    /\ resp.status = 400
    /\ resp.error = "Validation failed"
    /\ resp.details = <<"priority", "dueDate">>
    /\ resp.stages = <<"authenticateToken", "validateBody">>
    /\ todos # <<>>

\* C20: the owner of every stored task is a stored user
C20_OwnerExists == \A id \in DOMAIN todos : todos[id].userId \in DOMAIN users

\* the create of a request authenticated before its user was deleted did run
\* and was refused by storage, while tasks of another user are stored
C20_Witness ==
    /\ resp.op = "POST /"
    /\ ~resp.ok
    /\ Ran("service", resp.stages)
    /\ resp.userId \notin DOMAIN users
    /\ resp.thrown.name = "PrismaClientKnownRequestError"
    /\ todos # <<>>

(***************************************************************************)
(* SpecErrors: errorHandler applied to each error a request can end with,  *)
(* for each route the request can be on.                                   *)
(***************************************************************************)

\* instances of the application's error classes
AppErrors ==
    {ValidationError(m, d) : m \in {"Validation failed", "Query validation failed"},
                             d \in {<<"title">>, <<"title", "priority">>, <<"limit">>}}
    \cup {AuthenticationError(m) : m \in {"Access token required", "Invalid credentials",
                                           "Invalid or expired token",
                                           "Authentication required"}}
    \cup {AuthorizationError("Insufficient permissions")}
    \cup {NotFoundError(r) : r \in {"Todo", "User"}}
    \cup {ConflictError(m) : m \in {"User with this email already exists",
                                     "Email already in use"}}
    \cup {DatabaseError("Database operation failed")}

\* errors of the libraries: Prisma's request errors by code, zod, jsonwebtoken
\* and errors of other classes
ForeignErrors ==
    {ForeignError("PrismaClientKnownRequestError", c) :
        c \in {"P2002", "P2003", "P2025", "P2034", "P1001"}}
    \cup {[ForeignError("ZodError", "") EXCEPT !.details = <<"title">>]}
    \cup {ForeignError(n, "") :
            n \in {"JsonWebTokenError", "TokenExpiredError", "PrismaClientValidationError",
                   "PrismaClientInitializationError", "SyntaxError", "TypeError", "Error"}}

InitErrors ==
    /\ users = Registered
    /\ todos = <<>>
    /\ createdBy = <<>>
    /\ now = 2
    /\ inflight = EmptyBag
    /\ resp = NoResp
    /\ tokens = {}

\* a request on the route ends with error passed to next()
ErrorHandler(route, error) ==
    /\ Idle
    /\ resp' = failure(route, "", 0, error)
    /\ UNCHANGED <<users, todos, createdBy, now, inflight, tokens>>

NextErrors ==
    \/ \E route \in Routes, error \in AppErrors \cup ForeignErrors :
          ErrorHandler(route, error)
    \/ Ack

SpecErrors == InitErrors /\ [][NextErrors]_vars

(***************************************************************************)
(* Properties of SpecErrors                                                *)
(***************************************************************************)

\* the status the classes of the application stand for
StatusOfClass ==
    [ValidationError |-> 400, AuthenticationError |-> 401, AuthorizationError |-> 403,
     NotFoundError |-> 404, ConflictError |-> 409, DatabaseError |-> 500]

\* the library errors the classifier has a case for
ClassifiedForeign ==
    {"PrismaClientKnownRequestError", "ZodError", "JsonWebTokenError", "TokenExpiredError"}

\* C17: a failed request gets a response whose status is fixed by the class of
\* the error: 400, 401, 403, 404, 409 and 500 for ValidationError,
\* AuthenticationError, AuthorizationError, NotFoundError, ConflictError and
\* DatabaseError, 500 for an error the classifier has no case for; a
\* unique-constraint violation of storage (P2002) is answered 409 and a
\* foreign-key violation (P2003) 400, both with the classifier's own message
C17_StatusByErrorClass ==
    (~Idle /\ ~resp.ok) =>
      LET e == resp.thrown IN
        /\ e.name \in DOMAIN StatusOfClass => resp.status = StatusOfClass[e.name]
        /\ (e.name \notin DOMAIN StatusOfClass /\ e.name \notin ClassifiedForeign) =>
              resp.status = 500
        /\ (e.name = "PrismaClientKnownRequestError" /\ e.code = "P2002") =>
              /\ resp.status = StatusOfClass["ConflictError"]
              /\ resp.error # e.message
        /\ (e.name = "PrismaClientKnownRequestError" /\ e.code = "P2003") =>
              /\ resp.status = StatusOfClass["ValidationError"]
              /\ resp.error # e.message

\* a unique-constraint violation of storage was answered 409
C17_Witness ==
    /\ resp.thrown = ForeignError("PrismaClientKnownRequestError", "P2002")
    /\ resp.status = 409
    /\ resp.code = "DUPLICATE_RECORD"

\* C11: a login for an email no user has and a login with a wrong password for
\* an existing email get the same failure: status 401, code
\* AUTHENTICATION_ERROR, message 'Invalid credentials', no token, no user, and
\* the step leaves users, tokens and tasks as they were
C11_LoginFailuresIdentical ==
    [][(resp'.op = "login" /\ resp.op = "none") =>
         LET known == findUserByEmail(users, resp'.body.email)
             noSuchUser == known = {}
             wrongPassword ==
                 /\ known # {}
                 /\ \A id \in known :
                       bcryptHash[resp'.body.password] # users[id].password
         IN (noSuchUser \/ wrongPassword) =>
              /\ ~resp'.ok
              /\ resp'.status = 401
              /\ resp'.code = "AUTHENTICATION_ERROR"
              /\ resp'.error = "Invalid credentials"
              /\ resp'.thrown.name = "AuthenticationError"
              /\ resp'.token = NoToken
              /\ resp'.user = NoUser
              /\ UNCHANGED <<users, tokens, todos>>]_vars

\* a login was refused for the email of a registered user
C11_Witness ==
    /\ resp.op = "login"
    /\ ~resp.ok
    /\ findUserByEmail(users, resp.body.email) # {}
    /\ resp.error = "Invalid credentials"

\* C12: a registration with the email of a user already registered fails with
\* ConflictError (409); no user is added, none changes, no token is issued
C12_DuplicateEmailConflict ==
    [][(resp'.op = "register" /\ resp.op = "none"
        /\ findUserByEmail(users, resp'.body.email) # {}) =>
         /\ ~resp'.ok
         /\ resp'.status = 409
         /\ resp'.thrown.name = "ConflictError"
         /\ resp'.code = "CONFLICT_ERROR"
         /\ resp'.token = NoToken
         /\ resp'.user = NoUser
         /\ UNCHANGED <<users, tokens>>]_vars

\* a registration was refused while a user with its email is registered
C12_Witness ==
    /\ resp.op = "register"
    /\ ~resp.ok
    /\ resp.status = 409
    /\ Cardinality(findUserByEmail(users, resp.body.email)) = 1

(***************************************************************************)
(* SpecToggle: toggleTodoCompletion calls that run one after the other, no  *)
(* other request between the read and the write of a call. A toggle that   *)
(* writes takes a day, MaxToggles of them.                                  *)
(***************************************************************************)
MaxToggles == 3

TogglesDone == now - (CHOOSE st \in SampleStores : TRUE).at

ToggleTodoCompletionMarkDone(userId, todoId) ==
    /\ Idle
    /\ TogglesDone < MaxToggles
    /\ IF getTodoByIdFound(todos, userId, todoId)
       THEN /\ todos' = [todos EXCEPT ![todoId] = toggleTodoRow(@, FALSE, now)]
            /\ resp' = [success("toggleTodoCompletion", userId, todoId, 200,
                                <<toDto(toggleTodoRow(todos[todoId], FALSE, now))>>)
                          EXCEPT !.prior = Bool(todos[todoId].completed)]
            /\ now' = now + 1
       ELSE /\ resp' = failure("toggleTodoCompletion", userId, todoId,
                               getTodoByIdError(todos, userId, todoId))
            /\ UNCHANGED <<todos, now>>
    /\ UNCHANGED <<users, createdBy, inflight, tokens>>

\* toggleTodoCompletion: getTodoById, then update with the negation of what
\* it read
ToggleTodoCompletion(userId, todoId) ==
    /\ Idle
    /\ TogglesDone < MaxToggles
    /\ IF getTodoByIdFound(todos, userId, todoId)
       THEN /\ todos' = [todos EXCEPT
                           ![todoId] = toggleTodoRow(@, todos[todoId].completed, now)]
            /\ resp' = [success("toggleTodoCompletion", userId, todoId, 200,
                                <<toDto(toggleTodoRow(todos[todoId],
                                                      todos[todoId].completed, now))>>)
                          EXCEPT !.prior = Bool(todos[todoId].completed)]
            /\ now' = now + 1
       ELSE /\ resp' = failure("toggleTodoCompletion", userId, todoId,
                               getTodoByIdError(todos, userId, todoId))
            /\ UNCHANGED <<todos, now>>
    /\ UNCHANGED <<users, createdBy, inflight, tokens>>

NextToggle ==
    \/ \E u \in UserIds, id \in 1..Len(SampleRows) : ToggleTodoCompletion(u, id)
    \/ \E u \in UserIds, id \in 1..Len(SampleRows) : GetTodoById(u, id)
    \/ Ack

SpecToggle == InitWrite /\ [][NextToggle]_vars

(***************************************************************************)
(* Properties of SpecToggle                                                *)
(***************************************************************************)
\* the rows whose completed differs from the value the store was drawn with
Flipped == {id \in DOMAIN todos : todos[id].completed # SampleRows[id].completed}

StatsQueries == {"total", "completed", "pending", "overdue", "priorityStats"}

\* the answer of one of the five queries on the store as it is when the
\* query runs; groupBy answers with the priorities that have rows
getTodoStatsQuery(k, store, userId, at) ==
    CASE k = "total" -> count(store, [NoWhere EXCEPT !.userId = userId])
      [] k = "completed" ->
            count(store, [NoWhere EXCEPT !.userId = userId, !.completed = Bool(TRUE)])
      [] k = "pending" ->
            count(store, [NoWhere EXCEPT !.userId = userId, !.completed = Bool(FALSE)])
      [] k = "overdue" ->
            count(store, [NoWhere EXCEPT !.userId = userId, !.completed = Bool(FALSE),
                                         !.overdueAt = DateAt(at)])
      [] k = "priorityStats" ->
            [p \in {store[id].priority :
                      id \in matching(store, [NoWhere EXCEPT !.userId = userId])} |->
               count(store, [NoWhere EXCEPT !.userId = userId, !.priority = Str(p)])]

\* the TodoStats built from the five answers
todoStats(answers) ==
    [total |-> answers.total, completed |-> answers.completed,
     pending |-> answers.pending, overdue |-> answers.overdue,
     byPriority |-> [p \in {LOW, MEDIUM, HIGH} |->
                       IF p \in DOMAIN answers.priorityStats
                       THEN answers.priorityStats[p] ELSE 0]]

\* GET /stats: getTodoStats with its five queries answered before any other
\* request runs
GetTodoStats(userId) ==
    /\ Idle
    /\ resp' = [success("getTodoStats", userId, 0, 200, <<>>) EXCEPT
                  !.stats = todoStats([k \in StatsQueries |->
                                         getTodoStatsQuery(k, todos, userId, now)])]
    /\ UNCHANGED <<users, todos, createdBy, now, inflight, tokens>>

(***************************************************************************)
(* SpecOverdue: getOverdueTodos and getTodoStats on drawn stores as the     *)
(* days pass.                                                              *)
(***************************************************************************)
NextOverdue ==
    \/ \E u \in UserIds : GetOverdueTodos(u)
    \/ \E u \in UserIds : GetTodoStats(u)
    \/ Tick
    \/ Ack

SpecOverdue == InitQuery /\ [][NextOverdue]_vars

\* the owner's tasks that are not completed and are due before the day
RefOverdue(store, userId, day) ==
    {id \in DOMAIN store :
       /\ store[id].userId = userId
       /\ ~store[id].completed
       /\ store[id].dueDate.def
       /\ store[id].dueDate.t < day}

\* C24: getOverdueTodos returns exactly the owner's tasks that are not
\* completed and have a due date strictly before now, each once, and
\* getTodoStats reports their number as overdue; no completed task and no
\* task without a due date is among them.
C24_OverdueExactly ==
    /\ (resp.ok /\ resp.op = "getOverdueTodos") =>
          /\ DataIds(resp) = RefOverdue(todos, resp.userId, now)
          /\ Cardinality(DataIds(resp)) = Len(resp.data)
          /\ \A i \in 1..Len(resp.data) :
                ~resp.data[i].completed /\ resp.data[i].dueDate.def
    /\ (resp.ok /\ resp.op = "getTodoStats") =>
          resp.stats.overdue = Cardinality(RefOverdue(todos, resp.userId, now))

\* overdue tasks were returned to an owner who also has a completed task due
\* in the past and a task due today
C24_Witness ==
    /\ resp.ok /\ resp.op = "getOverdueTodos"
    /\ resp.data # <<>>
    /\ \E id \in DOMAIN todos :
          /\ todos[id].userId = resp.userId /\ todos[id].completed
          /\ todos[id].dueDate.def /\ todos[id].dueDate.t < now
    /\ \E id \in DOMAIN todos :
          /\ todos[id].userId = resp.userId /\ ~todos[id].completed
          /\ todos[id].dueDate = DateAt(now)

(***************************************************************************)
(* SpecDispatch: GET requests of an authenticated user to the router of     *)
(* the task routes. A path is the sequence of its segments; the router     *)
(* runs the first route, in the order of declaration, whose pattern        *)
(* matches, and every handler here ends the response.                      *)
(***************************************************************************)
sStats == <<"s", "t", "a", "t", "s">>
sStatus == <<"s", "t", "a", "t", "u", "s">>
sOverdue == <<"o", "v", "e", "r", "d", "u", "e">>
sPriority == <<"p", "r", "i", "o", "r", "i", "t", "y">>
sSearch == <<"s", "e", "a", "r", "c", "h">>
sHigh == <<"h", "i", "g", "h">>

\* router.get(...) in the order of todos.ts; a segment that starts with ":"
\* is a parameter
GetRoutes ==
    <<[pattern |-> <<>>, op |-> "getTodos"],
      [pattern |-> <<<<":", "i", "d">>>>, op |-> "getTodoById"],
      [pattern |-> <<sPriority, <<":", "p">>>>, op |-> "getTodosByPriority"],
      [pattern |-> <<sStatus, sOverdue>>, op |-> "getOverdueTodos"],
      [pattern |-> <<sStats>>, op |-> "getTodoStats"],
      [pattern |-> <<sSearch, <<":", "t">>>>, op |-> "searchTodos"]>>

\* does the path match the pattern: as many segments, a parameter takes any
\* segment, any other segment of the pattern takes itself
routeMatches(pattern, path) ==
    /\ Len(pattern) = Len(path)
    /\ \A i \in 1..Len(pattern) :
          IF Head(pattern[i]) = ":" THEN path[i] # <<>> ELSE pattern[i] = path[i]

\* the routes of the stack that match the path, in the order of the stack
matched(stack, path) == {i \in 1..Len(stack) : routeMatches(stack[i].pattern, path)}

\* the operation of the first route that matches
dispatch(stack, path) ==
    stack[CHOOSE i \in matched(stack, path) : \A j \in matched(stack, path) : i <= j].op

\* the task id a path segment names, 0 for a segment that is the id of no task
segmentId(seg) == IF Len(seg) = 1 /\ seg[1] \in DOMAIN DigitVal THEN DigitVal[seg[1]] ELSE 0

DispatchPaths ==
    {<<>>, <<sStats>>, <<sOverdue>>, <<sStatus, sOverdue>>, <<sPriority, sHigh>>,
     <<sSearch, sMilk>>, <<sSearch>>}
      \cup {<<<<c>>>> : c \in {"1", "2", "4", "7"}}

\* a GET request of the user for the path, from the router to the response
DispatchGet(userId, path) ==
    /\ Idle
    /\ matched(GetRoutes, path) # {}
    /\ LET op == dispatch(GetRoutes, path) IN
         \E answer \in
            CASE op = "getTodos" ->
                   LET q == getTodosQuery(userId, NoParams) IN
                     {paginated(userId, NoParams, items, q, count(todos, q.where)) :
                        items \in findMany(todos, q.where, q.orderBy, q.skip, q.limit)}
              [] op = "getTodoById" ->
                   LET id == segmentId(path[1]) IN
                     {IF getTodoByIdFound(todos, userId, id)
                      THEN success(op, userId, id, 200, <<toDto(todos[id])>>)
                      ELSE failure(op, userId, id, getTodoByIdError(todos, userId, id))}
              [] op = "getTodosByPriority" ->
                   {listed(op, userId, path[2], items) :
                      items \in findAll(todos,
                                        getTodosByPriorityWhere(userId, toUpperCase(path[2])),
                                        CreatedDesc)}
              [] op = "getOverdueTodos" ->
                   {listed(op, userId, <<>>, items) :
                      items \in findAll(todos, getOverdueTodosWhere(userId, now), DueAsc)}
              [] op = "getTodoStats" ->
                   {[success(op, userId, 0, 200, <<>>) EXCEPT
                       !.stats = todoStats([k \in StatsQueries |->
                                              getTodoStatsQuery(k, todos, userId, now)])]}
              [] op = "searchTodos" ->
                   {listed(op, userId, path[2], items) :
                      items \in findAll(todos, searchTodosWhere(userId, path[2]),
                                        CreatedDesc)} :
            resp' = [answer EXCEPT !.stages = path]
    /\ UNCHANGED <<users, todos, createdBy, now, inflight, tokens>>

NextDispatch ==
    \/ \E u \in UserIds, path \in DispatchPaths : DispatchGet(u, path)
    \/ Ack

SpecDispatch == InitQuery /\ [][NextDispatch]_vars

\* C25: GET stats is answered by getTodoStats with the owner's counts and
\* never by getTodoById; GET status/overdue, priority/{p} and search/{term}
\* are answered by getOverdueTodos, getTodosByPriority and searchTodos.
C25_StatsReachesStats ==
    /\ resp.stages = <<sStats>> =>
          /\ resp.op = "getTodoStats"
          /\ resp.ok
          /\ resp.stats.total = Cardinality({id \in DOMAIN todos :
                                               todos[id].userId = resp.userId})
    /\ resp.stages = <<sStatus, sOverdue>> => resp.op = "getOverdueTodos"
    /\ resp.stages = <<sPriority, sHigh>> => resp.op = "getTodosByPriority"
    /\ resp.stages = <<sSearch, sMilk>> => resp.op = "searchTodos"

(***************************************************************************)
(* SpecRegister: registrations whose lookup by email and insert are        *)
(* separate storage calls, MaxRacers of them between the two at once.      *)
(***************************************************************************)
UniqueViolation == ForeignError("PrismaClientKnownRequestError", "P2002")

userCreateErrorNoConstraint(store, userData) == NoError

\* what prisma.user.create throws under the UNIQUE constraint on users.email
userCreateError(store, userData) ==
    IF findUserByEmail(store, userData.email) # {} THEN UniqueViolation ELSE NoError

\* createUser up to the answer of findUserByEmail
RegisterCheck(userData) ==
    /\ Idle
    /\ IF createUserError(users, userData) # NoError
       THEN /\ resp' = [failure("register", "", 0, createUserError(users, userData))
                         EXCEPT !.body = userData]
            /\ UNCHANGED inflight
       ELSE /\ BagCardinality(inflight) < MaxRacers
            /\ Suspend([NoReq EXCEPT !.op = "register", !.body = userData])
            /\ UNCHANGED resp
    /\ UNCHANGED <<users, todos, createdBy, now, tokens>>

\* bcrypt.hash, prisma.user.create and, in AuthService.register, generateToken
RegisterInsert(r) ==
    /\ Idle
    /\ r \in BagToSet(inflight) /\ r.op = "register"
    /\ IF userCreateError(users, r.body) # NoError
       THEN /\ resp' = [failure("register", "", 0, userCreateError(users, r.body))
                         EXCEPT !.body = r.body]
            /\ UNCHANGED <<users, tokens>>
       ELSE /\ UserIds \ UsedUserIds # {}
            /\ LET user == [id |-> FreshUserId, email |-> r.body.email,
                            password |-> bcryptHash[r.body.password], name |-> ""]
                   token == generateToken([userId |-> user.id, email |-> user.email], now)
               IN /\ CanIssue(IssuedFor(token, user, now))
                  /\ users' = (user.id :> user) @@ users
                  /\ tokens' = tokens \cup {IssuedFor(token, user, now)}
                  /\ resp' = [success("register", user.id, 0, 201, <<>>)
                                EXCEPT !.token = token, !.user = toAuthUser(user),
                                       !.body = r.body]
    /\ Resume(r)
    /\ UNCHANGED <<todos, createdBy, now>>

NextRegister ==
    \/ \E e \in Emails, p \in Passwords : RegisterCheck([email |-> e, password |-> p])
    \/ \E r \in BagToSet(inflight) : RegisterInsert(r)
    \/ Ack

SpecRegister == InitAuth /\ [][NextRegister]_vars

\* C26: no two users have the same email, whatever the order of the lookups
\* and inserts of concurrent registrations; a registration that succeeds adds
\* one user whose email no user had and issues the one token for that email;
\* every other registration is answered 409 and adds no user and no token.
C26_EmailsUnique ==
    /\ [](\A a, b \in DOMAIN users : users[a].email = users[b].email => a = b)
    /\ [](\A e \in Emails : Cardinality({t \in tokens : t.email = e}) <= 1)
    /\ [][(resp'.op = "register" /\ resp.op = "none") =>
            IF resp'.ok
            THEN /\ findUserByEmail(users, resp'.body.email) = {}
                 /\ Cardinality(DOMAIN users') = Cardinality(DOMAIN users) + 1
                 /\ findUserByEmail(users', resp'.body.email) = {resp'.userId}
                 /\ Cardinality(tokens') = Cardinality(tokens) + 1
            ELSE /\ resp'.status = 409
                 /\ UNCHANGED <<users, tokens>>]_vars

\* of two registrations that both found the email free the second to insert
\* was refused by the storage and answered 409
C26_Witness ==
    /\ resp.op = "register"
    /\ ~resp.ok
    /\ resp.thrown = UniqueViolation
    /\ resp.status = 409
    /\ Cardinality(findUserByEmail(users, resp.body.email)) = 1

(***************************************************************************)
(* SpecGone: updateTodo, deleteTodo and toggleTodoCompletion on drawn       *)
(* stores, MaxRacers of them between the ownership check and the write at   *)
(* once and all on the same task, so that a delete is applied between the   *)
(* two calls of another.                                                   *)
(***************************************************************************)
\* the requests between check and write are all for the task todoId
OnlyFor(todoId) == \A r \in BagToSet(inflight) : r.todoId = todoId

NextGone ==
    \/ \E u \in UserIds, id \in 1..Len(SampleRows), d \in UpdateInputs :
          OnlyFor(id) /\ CheckOwnedAmong(MaxRacers, "updateTodo", u, id, d)
    \/ \E u \in UserIds, id \in 1..Len(SampleRows) :
          OnlyFor(id) /\ CheckOwnedAmong(MaxRacers, "deleteTodo", u, id, NoUpdate)
    \/ \E u \in UserIds, id \in 1..Len(SampleRows) :
          OnlyFor(id) /\ ToggleTodoReadAmong(u, id)
    \/ \E r \in BagToSet(inflight) : UpdateTodoWrite(r)
    \/ \E r \in BagToSet(inflight) : DeleteTodoWrite(r)
    \/ \E r \in BagToSet(inflight) : ToggleTodoWrite(r)
    \/ Ack

SpecGone == InitRace /\ [][NextGone]_vars

\* C27: a task that is not stored is not stored in any later state; the
\* write of an updateTodo or toggleTodoCompletion that passed its ownership
\* check and finds the task deleted is answered 404 and leaves every row as
\* it is.
C27_NoResurrection ==
    [][/\ \A id \in Deleted(todos, createdBy) : id \notin DOMAIN todos'
       /\ \A r \in BagToSet(inflight) :
            (/\ r.op \in {"updateTodo", "toggleTodoCompletion"}
             /\ inflight' = inflight (-) SetToBag({r})
             /\ resp'.op = r.op /\ resp'.todoId = r.todoId
             /\ r.todoId \notin DOMAIN todos) =>
               /\ ~resp'.ok
               /\ resp'.status = 404
               /\ todos' = todos]_vars

\* the write of a toggle or update found its task deleted since the check
C27_Witness ==
    /\ resp.op \in {"updateTodo", "toggleTodoCompletion"}
    /\ ~resp.ok
    /\ resp.thrown = RecordNotFound
    /\ resp.status = 404
    /\ resp.todoId \notin DOMAIN todos

(***************************************************************************)
(* SpecStats: getTodoStats with its five queries answered one at a time,    *)
(* in any order, while tasks of the store are created and toggled. One     *)
(* getTodoStats is in flight at a time.                                    *)
(***************************************************************************)
\* getTodoStats reads the time and sends its five queries
GetTodoStatsStart(userId) ==
    /\ Idle
    /\ inflight = EmptyBag
    /\ Suspend([NoReq EXCEPT !.op = "getTodoStats", !.userId = userId, !.at = now])
    /\ UNCHANGED <<users, todos, createdBy, now, resp, tokens>>

\* the storage answers query k of the request; the answer that completes the
\* five resolves Promise.all and the request is answered
GetTodoStatsAnswer(r, k) ==
    /\ Idle
    /\ r \in BagToSet(inflight) /\ r.op = "getTodoStats"
    /\ k \in StatsQueries \ DOMAIN r.answers
    /\ LET answers == (k :> getTodoStatsQuery(k, todos, r.userId, r.at)) @@ r.answers IN
         IF DOMAIN answers = StatsQueries
         THEN /\ Resume(r)
              /\ resp' = [success(r.op, r.userId, 0, 200, <<>>) EXCEPT
                            !.stats = todoStats(answers)]
         ELSE /\ inflight' = (inflight (-) SetToBag({r}))
                                (+) SetToBag({[r EXCEPT !.answers = answers]})
              /\ UNCHANGED resp
    /\ UNCHANGED <<users, todos, createdBy, now, tokens>>

NextStats ==
    \/ \E u \in UserIds : GetTodoStatsStart(u)
    \/ \E r \in BagToSet(inflight), k \in StatsQueries : GetTodoStatsAnswer(r, k)
    \/ \E id \in DOMAIN todos : ToggleTodoCompletion(todos[id].userId, id)
    \/ \E u \in UserIds, d \in CreateInputs : CreateTodoOnStore(u, d)
    \/ Ack

SpecStats == InitWrite /\ [][NextStats]_vars

\* C28: in every getTodoStats result total = completed + pending, overdue is
\* at most pending, and the three byPriority counts add up to total, also
\* when tasks of the owner are written while the five queries are in flight.
C28_StatsConsistent ==
    (resp.ok /\ resp.op = "getTodoStats") =>
       /\ resp.stats.total = resp.stats.completed + resp.stats.pending
       /\ resp.stats.overdue <= resp.stats.pending
       /\ resp.stats.byPriority[LOW] + resp.stats.byPriority[MEDIUM]
             + resp.stats.byPriority[HIGH] = resp.stats.total

(***************************************************************************)
(* SpecWrite again: the update that supplies nothing, from the validator   *)
(* of PUT /:id to the row.                                                 *)
(***************************************************************************)
\* C30: a body that supplies none of title, description, completed, priority
\* and dueDate passes validateBody(updateTodoSchema) unchanged, and updateTodo
\* with it on a task of the caller succeeds and returns the task with those
\* five fields, its id, owner and creation time as they were; no other task
\* changes.
C30_EmptyUpdateKeepsTask ==
    [][(/\ resp'.op = "updateTodo" /\ resp.op = "none"
        /\ resp'.payload = NoUpdate
        /\ getTodoByIdFound(todos, resp'.userId, resp'.todoId)) =>
         LET id == resp'.todoId
             v == validateBody(updateTodoSchemaIssues(NoUpdate),
                               updateTodoSchemaParse(NoUpdate))
         IN /\ v.ok /\ v.value = NoUpdate
            /\ resp'.ok /\ resp'.status = 200 /\ resp'.thrown = NoError
            /\ DOMAIN todos' = DOMAIN todos
            /\ todos'[id] = [todos[id] EXCEPT !.updatedAt = todos'[id].updatedAt]
            /\ resp'.data = <<toDto(todos'[id])>>
            /\ \A other \in DOMAIN todos \ {id} : todos'[other] = todos[other]]_vars

\* an update that supplied nothing succeeded on a task that has a
\* description and a due date
C30_Witness ==
    /\ resp.op = "updateTodo"
    /\ resp.ok
    /\ resp.payload = NoUpdate
    /\ todos[resp.todoId].description.def
    /\ todos[resp.todoId].dueDate.def
    /\ resp.data[1].title = todos[resp.todoId].title

====
